---- MODULE Spec2Model ----
(***************************************************************************)
(* State-machine model of the BrainWorkshop N-back trial engine:           *)
(* GameSession (domain/game_session.py), the history kept by Stats         *)
(* (models/stats.py), the stimulus generator (domain/stimulus_generator.py)*)
(* and the score engine (domain/match_checker.py).                         *)
(***************************************************************************)
EXTENDS Integers, Sequences, FiniteSets, TLC

(***************************************************************************)
(* Bounds of the model.                                                    *)
(***************************************************************************)
\* largest configured number of trials of a session (mode.num_trials_total)
MaxTrials == 2
\* clock readings (time.time()) range over 0..MaxTime
MaxTime == 1
\* number of sampled outcomes of the random source per trial
NumDraws == 2

(***************************************************************************)
(* Names of the stimulus map, the input flags and the history lists.       *)
(***************************************************************************)
PositionKeys == {"position1", "position2", "position3", "position4"}

VisKeys == {"vis1", "vis2", "vis3", "vis4"}

\* keys of the map returned by generate_base_stimuli, plus 'number'
StimKeys == PositionKeys \cup VisKeys \cup {"color", "vis", "audio", "audio2", "number"}

\* names for which Stats keeps <name>, <name>_input and <name>_rt lists
TripleNames == PositionKeys \cup VisKeys \cup {"color", "image", "audio", "audio2"}

\* keys of mode.inputs / mode.input_rts: every name with an _input and an _rt list
InputKeys == TripleNames \cup {"visvis", "visaudio", "audiovis"}

InputName(k) == k \o "_input"

RtName(k) == k \o "_rt"

\* every list of Stats.session
SessionKeys ==
    TripleNames
    \cup {InputName(k) : k \in TripleNames}
    \cup {RtName(k) : k \in TripleNames}
    \cup {"vis", "numbers", "operation", "visvis_input", "visaudio_input",
          "audiovis_input", "arithmetic_input", "visvis_rt", "visaudio_rt",
          "audiovis_rt"}

PositionName(i) == CASE i = 1 -> "position1" [] i = 2 -> "position2"
                     [] i = 3 -> "position3" [] OTHER -> "position4"

VisName(i) == CASE i = 1 -> "vis1" [] i = 2 -> "vis2"
                [] i = 3 -> "vis3" [] OTHER -> "vis4"

\* int(mod[-1]) for a position channel
PositionIndex(mod) == CASE mod = "position1" -> 1 [] mod = "position2" -> 2
                        [] mod = "position3" -> 3 [] OTHER -> 4

\* Python's None for an optional integer: the empty tuple, a value v being <<v>>
None == <<>>

(***************************************************************************)
(* Python list indexing: lst[idx] faults (IndexError) outside              *)
(* -len..len-1 and counts from the end for a negative idx.                 *)
(***************************************************************************)
InRange(lst, idx) == idx >= 0 - Len(lst) /\ idx < Len(lst)

At(lst, idx) == IF idx >= 0 THEN lst[idx + 1] ELSE lst[Len(lst) + idx + 1]

\* result of a match check: a fault (IndexError) or a boolean
Fault == [fault |-> TRUE, value |-> FALSE]

Ok(b) == [fault |-> FALSE, value |-> b]

(***************************************************************************)
(* ScoreEngine (domain/match_checker.py)                                   *)
(***************************************************************************)
\* check_position_match, check_audio_match, check_color_match and
\* check_image_match share this body, on the list named key
check_simple_match(session_history, trial_number, n_back, key) ==
    LET current_idx == trial_number - 1
        nback_idx == trial_number - n_back - 1
    IN  IF trial_number <= n_back THEN Ok(FALSE)
        ELSE IF nback_idx < 0 \/ current_idx >= Len(session_history[key]) THEN Ok(FALSE)
        ELSE Ok(At(session_history[key], current_idx) = At(session_history[key], nback_idx))

check_position_match(session_history, trial_number, n_back, position_key) ==
    check_simple_match(session_history, trial_number, n_back, position_key)

check_audio_match(session_history, trial_number, n_back, audio_key) ==
    check_simple_match(session_history, trial_number, n_back, audio_key)

check_color_match(session_history, trial_number, n_back) ==
    check_simple_match(session_history, trial_number, n_back, "color")

check_image_match(session_history, trial_number, n_back) ==
    check_simple_match(session_history, trial_number, n_back, "image")

check_combination_match(session_history, trial_number, n_back, combination_type) ==
    LET current_idx == trial_number - 1
        nback_idx == trial_number - n_back - 1
        cur == IF combination_type = "audiovis" THEN "audio" ELSE "vis"
        bck == IF combination_type = "visaudio" THEN "audio" ELSE "vis"
    IN  IF trial_number <= n_back THEN Ok(FALSE)
        ELSE IF nback_idx < 0 THEN Ok(FALSE)
        ELSE IF combination_type \notin {"visvis", "visaudio", "audiovis"} THEN Ok(FALSE)
        ELSE IF ~InRange(session_history[cur], current_idx)
                \/ ~InRange(session_history[bck], nback_idx) THEN Fault
        ELSE Ok(At(session_history[cur], current_idx) = At(session_history[bck], nback_idx))

\* a comparison in which no answer at distance 0.01 is within the tolerance
RoundsBelowTolerance_none == {}

\* the cases <<nback_number, current_number, answer100>>, operands in 0..12,
\* where the answer answer100 / 100 lies at distance 0.01 from the quotient
\* and abs(player_answer - expected), computed in doubles, is below the
\* double 0.01 (in every other such case it is not)
RoundsBelowTolerance ==
    {<<1, 5, 21>>, <<1, 10, 11>>, <<2, 1, 201>>, <<2, 5, 41>>, <<2, 10, 21>>,
     <<3, 1, 299>>, <<3, 1, 301>>, <<4, 1, 399>>, <<4, 1, 401>>,
     <<4, 2, 201>>, <<4, 10, 41>>, <<5, 1, 499>>, <<5, 1, 501>>,
     <<5, 2, 249>>, <<5, 2, 251>>, <<6, 1, 599>>, <<6, 1, 601>>,
     <<6, 2, 299>>, <<6, 2, 301>>, <<6, 3, 201>>, <<7, 1, 699>>,
     <<7, 1, 701>>, <<7, 2, 349>>, <<7, 2, 351>>, <<8, 1, 799>>,
     <<8, 1, 801>>, <<8, 2, 399>>, <<8, 2, 401>>, <<8, 4, 201>>,
     <<9, 1, 899>>, <<9, 1, 901>>, <<9, 2, 449>>, <<9, 2, 451>>,
     <<9, 3, 299>>, <<9, 3, 301>>, <<9, 4, 224>>, <<9, 4, 226>>,
     <<10, 1, 999>>, <<10, 1, 1001>>, <<10, 2, 499>>, <<10, 2, 501>>,
     <<10, 4, 249>>, <<10, 4, 251>>, <<10, 5, 201>>, <<11, 1, 1099>>,
     <<11, 1, 1101>>, <<11, 2, 549>>, <<11, 2, 551>>, <<11, 4, 274>>,
     <<11, 4, 276>>, <<11, 5, 221>>, <<12, 1, 1199>>, <<12, 1, 1201>>,
     <<12, 2, 599>>, <<12, 2, 601>>, <<12, 3, 399>>, <<12, 3, 401>>,
     <<12, 4, 299>>, <<12, 4, 301>>, <<12, 5, 239>>, <<12, 6, 201>>}

\* a check that takes the two operands in the opposite order
check_arithmetic_match_swapped(session_history, trial_number, n_back, answer100) ==
    LET nback_idx == trial_number - n_back - 1
        current_idx == trial_number - 1
        numbers == session_history["numbers"]
    IN  IF trial_number <= n_back THEN Ok(FALSE)
        ELSE IF nback_idx < 0 \/ nback_idx >= Len(numbers) THEN Ok(FALSE)
        ELSE IF current_idx >= Len(numbers) THEN Ok(FALSE)
        ELSE IF ~InRange(session_history["operation"], current_idx) THEN Fault
        ELSE LET nback_number == At(numbers, current_idx)
                 current_number == At(numbers, nback_idx)
                 operation == At(session_history["operation"], current_idx)
                 diff == answer100 * current_number - 100 * nback_number
                 absdiff == IF diff < 0 THEN 0 - diff ELSE diff
                 abscur == IF current_number < 0 THEN 0 - current_number ELSE current_number
             IN  CASE operation = "add" ->
                        Ok(answer100 = 100 * (nback_number + current_number))
                   [] operation = "subtract" ->
                        Ok(answer100 = 100 * (nback_number - current_number))
                   [] operation = "multiply" ->
                        Ok(answer100 = 100 * (nback_number * current_number))
                   [] operation = "divide" ->
                        IF current_number = 0 THEN Ok(FALSE)
                        ELSE Ok(\/ absdiff < abscur
                                \/ /\ absdiff = abscur
                                   /\ <<nback_number, current_number, answer100>>
                                        \in RoundsBelowTolerance)
                   [] OTHER -> Ok(FALSE)

\* Operands are integers; an answer is kept in hundredths (answer100 =
\* 100 * player_answer) so that 2.5 and 2.51 are representable.  Off the
\* distance 0.01 the double comparison agrees with the exact one.
check_arithmetic_match(session_history, trial_number, n_back, answer100) ==
    LET nback_idx == trial_number - n_back - 1
        current_idx == trial_number - 1
        numbers == session_history["numbers"]
    IN  IF trial_number <= n_back THEN Ok(FALSE)
        ELSE IF nback_idx < 0 \/ nback_idx >= Len(numbers) THEN Ok(FALSE)
        ELSE IF current_idx >= Len(numbers) THEN Ok(FALSE)
        ELSE IF ~InRange(session_history["operation"], current_idx) THEN Fault
        ELSE LET nback_number == At(numbers, nback_idx)
                 current_number == At(numbers, current_idx)
                 operation == At(session_history["operation"], current_idx)
                 diff == answer100 * current_number - 100 * nback_number
                 absdiff == IF diff < 0 THEN 0 - diff ELSE diff
                 abscur == IF current_number < 0 THEN 0 - current_number ELSE current_number
             IN  CASE operation = "add" ->
                        Ok(answer100 = 100 * (nback_number + current_number))
                   [] operation = "subtract" ->
                        Ok(answer100 = 100 * (nback_number - current_number))
                   [] operation = "multiply" ->
                        Ok(answer100 = 100 * (nback_number * current_number))
                   [] operation = "divide" ->
                        IF current_number = 0 THEN Ok(FALSE)
                        ELSE Ok(\/ absdiff < abscur
                                \/ /\ absdiff = abscur
                                   /\ <<nback_number, current_number, answer100>>
                                        \in RoundsBelowTolerance)
                   [] OTHER -> Ok(FALSE)

\* hits / possible_hits * 100, kept as the exact fraction num/den
Percentage(hits, possible_hits) ==
    IF possible_hits > 0 THEN [num |-> hits * 100, den |-> possible_hits]
    ELSE [num |-> 0, den |-> 1]

\* a scoring pass that counts the warm-up trials as scoreable
modality_trial_counting_warmup(session_history, n_back, modality, trial) ==
    LET current_idx == trial - 1
        nback_idx == trial - n_back - 1
        inp == session_history[InputName(modality)]
        skip == [fault |-> FALSE, counted |-> FALSE, correct |-> FALSE]
        bad == [fault |-> TRUE, counted |-> FALSE, correct |-> FALSE]
        res(is_match, player_input) ==
            [fault |-> FALSE, counted |-> TRUE, correct |-> (is_match = player_input)]
    IN  IF trial <= n_back THEN res(FALSE, FALSE)
        ELSE IF nback_idx < 0 THEN skip
        ELSE IF modality \in PositionKeys \cup {"audio", "audio2", "color", "image"} THEN
            IF current_idx < Len(session_history[modality]) THEN
                IF ~InRange(inp, current_idx) THEN bad
                ELSE res(At(session_history[modality], current_idx)
                            = At(session_history[modality], nback_idx),
                         At(inp, current_idx))
            ELSE res(FALSE, FALSE)
        ELSE IF modality \in {"visvis", "visaudio", "audiovis"} THEN
            IF ~InRange(inp, current_idx) THEN bad
            ELSE LET m == check_combination_match(session_history, trial, n_back, modality)
                 IN  IF m.fault THEN bad ELSE res(m.value, At(inp, current_idx))
        ELSE res(FALSE, FALSE)

\* a scoring pass that counts a trial as correct only when it is a pressed match
modality_trial_hits_only(session_history, n_back, modality, trial) ==
    LET current_idx == trial - 1
        nback_idx == trial - n_back - 1
        inp == session_history[InputName(modality)]
        skip == [fault |-> FALSE, counted |-> FALSE, correct |-> FALSE]
        bad == [fault |-> TRUE, counted |-> FALSE, correct |-> FALSE]
        res(is_match, player_input) ==
            [fault |-> FALSE, counted |-> TRUE, correct |-> (is_match /\ player_input)]
    IN  IF trial <= n_back THEN skip
        ELSE IF nback_idx < 0 THEN skip
        ELSE IF modality \in PositionKeys \cup {"audio", "audio2", "color", "image"} THEN
            IF current_idx < Len(session_history[modality]) THEN
                IF ~InRange(inp, current_idx) THEN bad
                ELSE res(At(session_history[modality], current_idx)
                            = At(session_history[modality], nback_idx),
                         At(inp, current_idx))
            ELSE res(FALSE, FALSE)
        ELSE IF modality \in {"visvis", "visaudio", "audiovis"} THEN
            IF ~InRange(inp, current_idx) THEN bad
            ELSE LET m == check_combination_match(session_history, trial, n_back, modality)
                 IN  IF m.fault THEN bad ELSE res(m.value, At(inp, current_idx))
        ELSE res(FALSE, FALSE)

\* one pass of the loop body of calculate_modality_score:
\* [fault, counted, correct] for the given trial
modality_trial(session_history, n_back, modality, trial) ==
    LET current_idx == trial - 1
        nback_idx == trial - n_back - 1
        inp == session_history[InputName(modality)]
        skip == [fault |-> FALSE, counted |-> FALSE, correct |-> FALSE]
        bad == [fault |-> TRUE, counted |-> FALSE, correct |-> FALSE]
        res(is_match, player_input) ==
            [fault |-> FALSE, counted |-> TRUE, correct |-> (is_match = player_input)]
    IN  IF trial <= n_back THEN skip
        ELSE IF nback_idx < 0 THEN skip
        ELSE IF modality \in PositionKeys \cup {"audio", "audio2", "color", "image"} THEN
            IF current_idx < Len(session_history[modality]) THEN
                IF ~InRange(inp, current_idx) THEN bad
                ELSE res(At(session_history[modality], current_idx)
                            = At(session_history[modality], nback_idx),
                         At(inp, current_idx))
            ELSE res(FALSE, FALSE)
        ELSE IF modality \in {"visvis", "visaudio", "audiovis"} THEN
            IF ~InRange(inp, current_idx) THEN bad
            ELSE LET m == check_combination_match(session_history, trial, n_back, modality)
                 IN  IF m.fault THEN bad ELSE res(m.value, At(inp, current_idx))
        ELSE res(FALSE, FALSE)

\* the counts acc after a pass r of a scoring loop
count_trial(acc, r) ==
    [trial |-> acc.trial + 1,
     fault |-> r.fault,
     hits |-> acc.hits + (IF r.counted /\ r.correct THEN 1 ELSE 0),
     possible_hits |-> acc.possible_hits + (IF r.counted THEN 1 ELSE 0)]

\* the dictionary a scoring loop returns for its final counts r
score_result(r) ==
    [fault |-> r.fault, hits |-> r.hits, possible_hits |-> r.possible_hits,
     percentage |-> Percentage(r.hits, r.possible_hits)]

RECURSIVE modality_loop(_, _, _, _, _)
\* the loop of calculate_modality_score from trial up to num_trials,
\* starting from the counts in acc; a fault ends the loop
modality_loop(session_history, n_back, modality, num_trials, acc) ==
    IF acc.trial > num_trials \/ acc.fault THEN acc
    ELSE modality_loop(session_history, n_back, modality, num_trials,
            count_trial(acc, modality_trial(session_history, n_back, modality,
                                            acc.trial)))

calculate_modality_score(session_history, n_back, modality, num_trials) ==
    score_result(modality_loop(session_history, n_back, modality, num_trials,
                    [trial |-> 1, fault |-> FALSE, hits |-> 0, possible_hits |-> 0]))

\* one pass of the loop body of calculate_arithmetic_score
arithmetic_trial(session_history, n_back, trial) ==
    LET current_idx == trial - 1
        skip == [fault |-> FALSE, counted |-> FALSE, correct |-> FALSE]
    IN  IF trial <= n_back THEN skip
        ELSE IF current_idx >= Len(session_history["arithmetic_input"]) THEN skip
        ELSE LET m == check_arithmetic_match(session_history, trial, n_back,
                        100 * At(session_history["arithmetic_input"], current_idx))
             IN  [fault |-> m.fault, counted |-> ~m.fault, correct |-> m.value]

RECURSIVE arithmetic_loop(_, _, _, _)
arithmetic_loop(session_history, n_back, num_trials, acc) ==
    IF acc.trial > num_trials \/ acc.fault THEN acc
    ELSE arithmetic_loop(session_history, n_back, num_trials,
            count_trial(acc, arithmetic_trial(session_history, n_back, acc.trial)))

calculate_arithmetic_score(session_history, n_back, num_trials) ==
    score_result(arithmetic_loop(session_history, n_back, num_trials,
                    [trial |-> 1, fault |-> FALSE, hits |-> 0, possible_hits |-> 0]))

\* the keys of the score map besides 'overall'
ScoreKeys == PositionKeys \cup VisKeys
             \cup {"audio", "audio2", "color", "image", "visvis", "visaudio",
                   "audiovis", "arithmetic"}

\* score of one active modality, as calculate_session_score computes it
score_of(session_history, n_back, modality, num_trials) ==
    IF modality = "arithmetic"
    THEN calculate_arithmetic_score(session_history, n_back, num_trials)
    ELSE calculate_modality_score(session_history, n_back, modality, num_trials)

RECURSIVE SumOver(_, _, _)
\* sum of f[modalities[i]] over the list positions i..Len
SumOver(modalities, f, i) ==
    IF i > Len(modalities) THEN 0
    ELSE f[modalities[i]] + SumOver(modalities, f, i + 1)

\* the score map built from the per-modality results r, with its 'overall'
\* entry computed from the summed hits and possible hits
session_scores(modalities, r, total_hits, total_possible) ==
    [fault |-> \E m \in DOMAIN r : r[m].fault,
     scores |-> [k \in ScoreKeys \cup DOMAIN r \cup {"overall"} |->
                    IF k = "overall" THEN Percentage(total_hits, total_possible)
                    ELSE IF k \in DOMAIN r THEN r[k].percentage
                    ELSE Percentage(0, 0)]]

\* totals taken from the first modality alone
session_totals_first_channel(modalities, r) ==
    session_scores(modalities, r, r[modalities[1]].hits,
                   r[modalities[1]].possible_hits)

\* the totals of the per-modality results r
session_totals(modalities, r) ==
    session_scores(modalities, r,
                   SumOver(modalities, [m \in DOMAIN r |-> r[m].hits], 1),
                   SumOver(modalities, [m \in DOMAIN r |-> r[m].possible_hits], 1))

\* modalities is the list of active modalities (no repetitions); the result
\* is [fault, scores], scores being the returned map with its 'overall' entry
calculate_session_score(session_history, n_back, modalities, num_trials) ==
    session_totals(modalities,
        [m \in {modalities[i] : i \in 1..Len(modalities)} |->
            score_of(session_history, n_back, m, num_trials)])

(***************************************************************************)
(* StimulusGenerator (domain/stimulus_generator.py).  Every call of the    *)
(* random module is a field of the record rng: random.random() is a value  *)
(* in 0..999 (thousandths), and probabilities are in thousandths too.      *)
(***************************************************************************)
Abs(x) == IF x < 0 THEN 0 - x ELSE x

\* a generator that draws each position on its own
generate_base_stimuli_with_replacement(modalities, multi_mode, rng) ==
    [k \in StimKeys |->
        CASE k \in PositionKeys -> rng.vis4[PositionIndex(k)]
          [] k = "vis1" -> rng.vis4[1]
          [] k = "vis2" -> rng.vis4[2]
          [] k = "vis3" -> rng.vis4[3]
          [] k = "vis4" -> rng.vis4[4]
          [] k = "color" -> rng.color
          [] k = "vis" -> rng.vis
          [] k = "audio" -> rng.audio
          [] k = "audio2" -> rng.audio2
          [] OTHER -> 0]

\* rng.positions = random.sample(range(1, 9), 4); the other fields are the
\* random.randint(1, 8) calls in the order of the code
generate_base_stimuli(modalities, multi_mode, rng) ==
    [k \in StimKeys |->
        CASE k \in PositionKeys -> rng.positions[PositionIndex(k)]
          [] k = "vis1" -> rng.vis4[1]
          [] k = "vis2" -> rng.vis4[2]
          [] k = "vis3" -> rng.vis4[3]
          [] k = "vis4" -> rng.vis4[4]
          [] k = "color" -> rng.color
          [] k = "vis" -> rng.vis
          [] k = "audio" -> rng.audio
          [] k = "audio2" -> rng.audio2
          [] OTHER -> 0]

\* the list random.choice draws from in choose_arithmetic_operation
arithmetic_operations(use_addition, use_subtraction, use_multiplication, use_division) ==
    LET operations ==
            (IF use_addition THEN <<"add">> ELSE <<>>)
            \o (IF use_subtraction THEN <<"subtract">> ELSE <<>>)
            \o (IF use_multiplication THEN <<"multiply">> ELSE <<>>)
            \o (IF use_division THEN <<"divide">> ELSE <<>>)
    IN  IF operations = <<>> THEN <<"add">> ELSE operations

\* random.choice(operations), the draw pick selecting the element
choose_arithmetic_operation(use_addition, use_subtraction, use_multiplication, use_division, pick) ==
    LET operations == arithmetic_operations(use_addition, use_subtraction,
                                            use_multiplication, use_division)
    IN  operations[(pick % Len(operations)) + 1]

\* a candidate pool that admits every nonzero operand
division_possibilities_any(min_number, max_number, acceptable_decimals, previous_result) ==
    {x \in min_number..max_number : x # 0}

\* an acceptable decimal is the exact fraction num/den that Decimal(entry) holds;
\* previous_result is the integer itself
division_possibilities(min_number, max_number, acceptable_decimals, previous_result) ==
    {x \in min_number..max_number :
        /\ x # 0
        /\ \/ Abs(previous_result) % Abs(x) = 0
           \/ \E d \in acceptable_decimals :
                (Abs(previous_result) % Abs(x)) * d.den = d.num * Abs(x)}

\* the set of values generate_arithmetic_operand can return; the empty set
\* means that the while loop never ends
arithmetic_operand_choices(operation, min_number, max_number, acceptable_decimals, previous_result) ==
    LET possibilities ==
            IF operation = "divide" /\ previous_result # None
            THEN division_possibilities(min_number, max_number, acceptable_decimals,
                                        previous_result[1])
            ELSE {}
    IN  IF possibilities # {} THEN possibilities
        ELSE {x \in min_number..max_number : x # 0}

\* the element of the non-empty integer set S that the draw pick selects
PickFrom(S, pick) ==
    LET k == (pick % Cardinality(S)) + 1
    IN  CHOOSE x \in S : Cardinality({y \in S : y <= x}) = k

generate_arithmetic_operand(operation, min_number, max_number, acceptable_decimals, previous_result, pick) ==
    PickFrom(arithmetic_operand_choices(operation, min_number, max_number,
                                        acceptable_decimals, previous_result), pick)

\* key of the current stimulus a modality is shown on
current_key(mod) ==
    IF mod \in {"visvis", "visaudio", "image"} THEN "vis"
    ELSE IF mod = "audiovis" THEN "audio"
    ELSE mod

\* history list a modality is compared with
back_data_key(mod) ==
    IF mod \in {"visvis", "audiovis", "image"} THEN "vis"
    ELSE IF mod = "visaudio" THEN "audio"
    ELSE mod

\* the interference list after random.shuffle, perm being a permutation of 1..3
shuffled_interference(n_back, perm) ==
    LET interference == IF n_back < 3 THEN <<1, n_back>> ELSE <<0 - 1, 1, n_back>>
        order == SelectSeq(perm, LAMBDA j : j <= Len(interference))
    IN  [j \in 1..Len(order) |-> interference[order[j]]]

\* an interference that takes the first candidate offset inside the history,
\* whatever value it holds
choose_back_first_in_history(session_history, trial_number, n_back, back_data, chance_guaranteed_match, chance_interference, multi_mode, r1, r2, perm) ==
    LET r2_lt == IF multi_mode > 1 THEN 3 * r2 < 2 * chance_interference
                 ELSE r2 < chance_interference
        cand == shuffled_interference(n_back, perm)
        hits == {j \in 1..Len(cand) : trial_number - (n_back + cand[j]) - 1 >= 0}
        first == CHOOSE j \in hits : \A j2 \in hits : j <= j2
    IN  IF r1 < chance_guaranteed_match THEN n_back
        ELSE IF r2_lt /\ n_back > 1 /\ hits # {} THEN n_back + cand[first]
        ELSE 0

\* the offset 'back' chosen for one modality: n_back for a guaranteed match,
\* n_back + i for an interference, and 0 where the code leaves None (the test
\* 'if back:' treats None and 0 alike)
choose_back(session_history, trial_number, n_back, back_data, chance_guaranteed_match, chance_interference, multi_mode, r1, r2, perm) ==
    LET r2_lt == IF multi_mode > 1 THEN 3 * r2 < 2 * chance_interference
                 ELSE r2 < chance_interference
        cand == shuffled_interference(n_back, perm)
        qualifies(i) ==
            /\ trial_number - (n_back + i) - 1 >= 0
            /\ At(session_history[back_data], trial_number - (n_back + i) - 1)
                 # At(session_history[back_data], trial_number - n_back - 1)
        hits == {j \in 1..Len(cand) : qualifies(cand[j])}
        first == CHOOSE j \in hits : \A j2 \in hits : j <= j2
    IN  IF r1 < chance_guaranteed_match THEN n_back
        ELSE IF r2_lt /\ n_back > 1 THEN
            IF hits = {} THEN 0
            ELSE IF n_back + cand[first] = n_back THEN 0
            ELSE n_back + cand[first]
        ELSE 0

\* 'Apply the match' that writes the matching stimulus and leaves every other
\* displayed position as it is
apply_match_without_swap(acc, session_history, trial_number, mod, back, multi_mode) ==
    LET current == current_key(mod)
        matching_stim == At(session_history[back_data_key(mod)], trial_number - back - 1)
    IN  [stim |-> [acc.stim EXCEPT ![current] = matching_stim],
         positions |-> IF multi_mode > 1 /\ mod \in PositionKeys
                       THEN [acc.positions EXCEPT ![PositionIndex(mod)] = matching_stim]
                       ELSE acc.positions]

\* 'Apply the match' for one modality; acc = [stim, positions]
apply_match(acc, session_history, trial_number, mod, back, multi_mode) ==
    LET current == current_key(mod)
        matching_stim == At(session_history[back_data_key(mod)], trial_number - back - 1)
        own == PositionIndex(mod)
        conflict_positions == {acc.positions[i] : i \in (1..multi_mode) \ {own}}
        i1 == CHOOSE i \in 1..4 :
                /\ acc.positions[i] = matching_stim
                /\ \A i2 \in 1..4 : acc.positions[i2] = matching_stim => i <= i2
        swap == matching_stim \in conflict_positions
        stim1 == IF swap
                 THEN [acc.stim EXCEPT ![PositionName(i1)] = acc.stim[current]]
                 ELSE acc.stim
        pos1 == IF swap
                THEN [acc.positions EXCEPT ![i1] = acc.stim[current]]
                ELSE acc.positions
    IN  IF multi_mode > 1 /\ mod \in PositionKeys
        THEN [stim |-> [stim1 EXCEPT ![current] = matching_stim],
              positions |-> [pos1 EXCEPT ![own] = matching_stim]]
        ELSE [stim |-> [acc.stim EXCEPT ![current] = matching_stim],
              positions |-> acc.positions]

RECURSIVE nback_loop(_, _, _, _, _, _, _, _, _, _)
\* the loop 'for mod in modalities' from list position j on
nback_loop(acc, session_history, trial_number, n_back, modalities, chance_guaranteed_match, chance_interference, multi_mode, rng, j) ==
    IF j > Len(modalities) THEN acc
    ELSE LET mod == modalities[j]
             back == choose_back(session_history, trial_number, n_back,
                                 back_data_key(mod), chance_guaranteed_match,
                                 chance_interference, multi_mode,
                                 rng.r1[j], rng.r2[j], rng.shuffle[j])
             acc1 == IF mod = "arithmetic" THEN acc
                     ELSE IF back = 0 THEN acc
                     ELSE apply_match(acc, session_history, trial_number, mod, back,
                                      multi_mode)
         IN  nback_loop(acc1, session_history, trial_number, n_back, modalities,
                        chance_guaranteed_match, chance_interference, multi_mode,
                        rng, j + 1)

\* 'Multi-stim reversal interference': rng.rev and rng.rev_vis are the two
\* random.random() calls, rng.offset the draw of random.choice(range(1, multi))
reversal(stim, session_history, trial_number, n_back, modalities, chance_interference, multi_mode, rng) ==
    LET active == {modalities[j] : j \in 1..Len(modalities)}
        use_vis == "vis1" \in active /\ rng.rev_vis < 500
        offset == (rng.offset % (multi_mode - 1)) + 1
        src(i) == IF use_vis THEN VisName(((i + offset) % multi_mode) + 1)
                  ELSE PositionName(((i + offset) % multi_mode) + 1)
        dst(i) == IF use_vis THEN VisName(i + 1) ELSE PositionName(i + 1)
        targets == {dst(i) : i \in 0..(multi_mode - 1)}
        from(k) == CHOOSE i \in 0..(multi_mode - 1) : dst(i) = k
    IN  IF multi_mode > 1 /\ 3 * rng.rev < chance_interference
        THEN [k \in StimKeys |->
                IF k \in targets
                THEN At(session_history[src(from(k))], trial_number - n_back - 1)
                ELSE stim[k]]
        ELSE stim

apply_nback_matching(current_stim, session_history, trial_number, n_back, modalities, chance_guaranteed_match, chance_interference, multi_mode, rng) ==
    IF trial_number <= n_back THEN current_stim
    ELSE LET positions == [i \in 1..4 |-> current_stim[PositionName(i)]]
             acc == nback_loop([stim |-> current_stim, positions |-> positions],
                               session_history, trial_number, n_back, modalities,
                               chance_guaranteed_match, chance_interference,
                               multi_mode, rng, 1)
         IN  reversal(acc.stim, session_history, trial_number, n_back, modalities,
                      chance_interference, multi_mode, rng)

apply_static_defaults(stimuli, modalities, default_color) ==
    LET active == {modalities[j] : j \in 1..Len(modalities)}
    IN  [k \in StimKeys |->
            CASE k = "color" /\ "color" \notin active -> default_color
              [] k = "position1" /\ "position1" \notin active -> 0
              [] k = "vis" /\ {"visvis", "arithmetic", "image"} \cap active = {} -> 0
              [] OTHER -> stimuli[k]]

\* a pass counter that leaves out the first trial after the warm-up
count_nback_matches_skipping_first(seq, n_back, num_trials) ==
    Cardinality({x \in (n_back + 2)..num_trials : seq[x] = seq[x - n_back]})

\* the counter 'position' (or 'audio') of compute_jaeggi_sequence after one
\* pass: the trials x in n_back..num_trials-1 (here 1-based) whose entry
\* equals the entry n_back earlier
count_nback_matches(seq, n_back, num_trials) ==
    Cardinality({x \in (n_back + 1)..num_trials : seq[x] = seq[x - n_back]})

\* the counter 'both' of compute_jaeggi_sequence
count_both_matches(bt_seq, n_back, num_trials) ==
    Cardinality({x \in (n_back + 1)..num_trials :
                    /\ bt_seq[1][x] = bt_seq[1][x - n_back]
                    /\ bt_seq[2][x] = bt_seq[2][x - n_back]})

\* one pass of random.randint(1, 8) over the trials after the warm-up: the
\* draws repeat the entry n_back earlier on the trials lo..hi and take
\* another value everywhere else
jaeggi_pass(seq, n_back, num_trials, lo, hi) ==
    LET drawn[x \in 1..num_trials] ==
            IF x <= n_back THEN seq[x]
            ELSE IF x \in lo..hi THEN drawn[x - n_back]
            ELSE (drawn[x - n_back] % 8) + 1
    IN  [x \in 1..num_trials |-> drawn[x]]

\* the sampled outcomes of one pass over a sequence
jaeggi_passes(seq, n_back, num_trials) ==
    {jaeggi_pass(seq, n_back, num_trials, lo, hi) :
        lo \in (n_back + 1)..(num_trials + 1), hi \in n_back..num_trials}

\* the sequences after the zero fill and the warm-up draws v (position) and
\* w (audio)
jaeggi_warm_up(n_back, num_trials, v, w) ==
    <<[x \in 1..num_trials |-> IF x <= n_back THEN v ELSE 0],
      [x \in 1..num_trials |-> IF x <= n_back THEN w ELSE 0]>>

\* the sampled values compute_jaeggi_sequence can return (warm-up draws 1
\* and 8): the loops end only with position = 6, audio = 6 and both = 2
compute_jaeggi_sequence(n_back, num_trials) ==
    LET warm == jaeggi_warm_up(n_back, num_trials, 1, 8)
        passing(seq) == {q \in jaeggi_passes(seq, n_back, num_trials) :
                            count_nback_matches(q, n_back, num_trials) = 6}
    IN  {bt \in passing(warm[1]) \X passing(warm[2]) :
            count_both_matches(bt, n_back, num_trials) = 2}

(***************************************************************************)
(* Sampled inputs of a session: the Mode object handed to GameSession, the *)
(* cfg object and the outcomes of the random source.                       *)
(***************************************************************************)
\* the cfg object
Config ==
    [MULTI_MODE |-> "color",
     VARIABLE_NBACK |-> FALSE,
     JAEGGI_MODE |-> FALSE,
     CHANCE_OF_GUARANTEED_MATCH |-> 125,
     CHANCE_OF_INTERFERENCE |-> 125,
     ARITHMETIC_USE_ADDITION |-> TRUE,
     ARITHMETIC_USE_SUBTRACTION |-> FALSE,
     ARITHMETIC_USE_MULTIPLICATION |-> FALSE,
     ARITHMETIC_USE_DIVISION |-> FALSE,
     ARITHMETIC_USE_NEGATIVES |-> FALSE,
     ARITHMETIC_MAX_NUMBER |-> 12,
     ARITHMETIC_ACCEPTABLE_DECIMALS |-> {[num |-> 1, den |-> 2]},
     VISUAL_COLORS |-> <<1>>]

\* the configuration fields of a Mode object (flags and modalities are those
\* of the selected mode.mode)
ModeOf(ticks_per_trial, multi, selfpaced, modalities, num_trials_total, session_number) ==
    [ticks_per_trial |-> ticks_per_trial, multi |-> multi, selfpaced |-> selfpaced,
     crab |-> 0, modalities |-> modalities, back |-> 1,
     num_trials_total |-> num_trials_total, session_number |-> session_number]

\* the sessions that are run: the mode, the configuration and the keys the
\* player presses. A one-trial dual 1-back at a pace that reaches the hide
\* tick, the same self-paced, and sessions of MaxTrials trials at a 3-tick
\* pace and in a two-position image mode, and a one-trial two-position
\* session in color mode
Setups ==
    {[mode |-> ModeOf(8, 1, FALSE, <<"position1", "audio">>, 1, 0), cfg |-> Config,
      keys |-> {"position1", "audio"}],
     [mode |-> ModeOf(12, 1, TRUE, <<"position1", "audio">>, 1, 1), cfg |-> Config,
      keys |-> {"position1", "audio"}],
     [mode |-> ModeOf(3, 1, FALSE, <<"position1", "audio">>, MaxTrials, 2),
      cfg |-> Config, keys |-> {"audio"}],
     [mode |-> ModeOf(4, 2, FALSE, <<"position1", "position2", "audio">>, MaxTrials, 3),
      cfg |-> [Config EXCEPT !.MULTI_MODE = "image"], keys |-> {"audio"}],
     [mode |-> ModeOf(10, 2, FALSE, <<"position1", "position2", "audio">>, 1, 8),
      cfg |-> Config, keys |-> {"audio"}]}

\* sessions with an invalid configuration: no channel, n-back level 0, and
\* five simultaneous stimuli
InvalidSetups ==
    {[mode |-> ModeOf(3, 1, FALSE, <<>>, 1, 4), cfg |-> Config, keys |-> {"audio"}],
     [mode |-> [ModeOf(3, 1, FALSE, <<"position1", "audio">>, 1, 5) EXCEPT !.back = 0],
      cfg |-> Config, keys |-> {"audio"}],
     [mode |-> ModeOf(3, 5, FALSE, <<"position1", "audio">>, 1, 6), cfg |-> Config,
      keys |-> {"audio"}]}

\* a dual 1-back session of 11 trials in Jaeggi mode, the shortest one for
\* which compute_jaeggi_sequence returns; the player presses no key
JaeggiSetup ==
    [mode |-> ModeOf(3, 1, FALSE, <<"position1", "audio">>, 11, 7),
     cfg |-> [Config EXCEPT !.JAEGGI_MODE = TRUE], keys |-> {}]

\* the N-back level and the trial totals of these sessions
VariableBack == 2

VariableTrials == 4

\* dual 2-back sessions: standard, crab, variable-N with VariableTrials
\* trials and variable-N with one trial after the warm-up; no key is pressed
VariableSetups ==
    {[mode |-> [ModeOf(3, 1, FALSE, <<"position1", "audio">>, VariableTrials, 9)
                    EXCEPT !.back = VariableBack],
      cfg |-> Config, keys |-> {}],
     [mode |-> [ModeOf(3, 1, FALSE, <<"position1", "audio">>, VariableTrials, 10)
                    EXCEPT !.back = VariableBack, !.crab = 1],
      cfg |-> Config, keys |-> {}],
     [mode |-> [ModeOf(3, 1, FALSE, <<"position1", "audio">>, VariableTrials, 11)
                    EXCEPT !.back = VariableBack],
      cfg |-> [Config EXCEPT !.VARIABLE_NBACK = TRUE], keys |-> {}],
     [mode |-> [ModeOf(3, 1, FALSE, <<"position1", "audio">>, VariableBack + 1, 12)
                    EXCEPT !.back = VariableBack],
      cfg |-> [Config EXCEPT !.VARIABLE_NBACK = TRUE], keys |-> {}]}

\* a one-trial dual 1-back at the pace of the self-paced setup, not self-paced
PacedSetup ==
    [mode |-> ModeOf(12, 1, FALSE, <<"position1", "audio">>, 1, 14), cfg |-> Config,
     keys |-> {"audio"}]

\* a one-trial dual 1-back at 3 ticks per trial
ShortSetup ==
    [mode |-> ModeOf(3, 1, FALSE, <<"position1", "audio">>, 1, 15), cfg |-> Config,
     keys |-> {"audio"}]

\* the s-th sampled outcome of the random calls of one trial
Rng(s) ==
    [positions |-> [i \in 1..4 |-> ((s + i - 2) % 8) + 1],
     vis4 |-> [i \in 1..4 |-> ((2 * s + i) % 8) + 1],
     color |-> ((s + 2) % 8) + 1,
     vis |-> ((s + 4) % 8) + 1,
     audio |-> ((3 * s) % 8) + 1,
     audio2 |-> ((5 * s) % 8) + 1,
     op |-> s,
     number |-> s,
     r1 |-> [j \in 1..4 |-> IF (s + j) % 2 = 0 THEN 0 ELSE 999],
     r2 |-> [j \in 1..4 |-> 999],
     shuffle |-> [j \in 1..4 |-> <<1, 2, 3>>],
     rev |-> 999,
     rev_vis |-> 999,
     offset |-> s]

RandomSource == {Rng(s) : s \in 1..NumDraws}

Times == 0..MaxTime

(***************************************************************************)
(* SessionStateMachine (domain/game_session.py) with the history of        *)
(* models/stats.py.                                                        *)
(***************************************************************************)
VARIABLES
    mode,               \* fields of the Mode object (written by the controller
                        \* and by the level progression only)
    cfg,                \* the cfg object (never written)
    started,            \* GameSession.started / mode.started
    paused,             \* GameSession.paused / mode.paused
    tick,               \* mode.tick
    trial_number,       \* mode.trial_number
    session_number,     \* mode.session_number
    sessions_today,     \* stats.sessions_today
    show_missed,        \* mode.show_missed
    trial_starttime,    \* GameSession.trial_starttime
    current_stim,       \* mode.current_stim
    current_operation,  \* mode.current_operation
    inputs,             \* mode.inputs
    input_rts,          \* mode.input_rts
    session,            \* stats.session
    variable_list,      \* mode.variable_list
    history,            \* stats.history: [session_number, mode, n_back, percent, manual]
    full_history,       \* stats.full_history
    bt_sequence,        \* mode.bt_sequence
    events,             \* callbacks invoked by the last operation, in order
    session_end_log,    \* arguments of every on_session_end call so far
    score_calls,        \* num_trials argument of every calculate_session_score call
    shown,              \* stimulus map of every on_stimulus_generated call so far
    stimulus_hidden,    \* on_stimulus_hide was invoked since the last trial started
    session_number_before_start,  \* mode.session_number when start() was entered
    op,                 \* the last operation called on the session
    call                \* a direct call of a ScoreEngine or StimulusGenerator
                        \* function: its arguments and what it returned

vars == <<mode, cfg, started, paused, tick, trial_number, session_number,
          sessions_today, show_missed, trial_starttime, current_stim,
          current_operation, inputs, input_rts, session, variable_list,
          history, full_history, bt_sequence, events, session_end_log, score_calls, shown,
          stimulus_hidden, session_number_before_start, op, call>>

\* the variables of the session state machine
session_vars == <<mode, cfg, started, paused, tick, trial_number, session_number,
                  sessions_today, show_missed, trial_starttime, current_stim,
                  current_operation, inputs, input_rts, session, variable_list,
                  history, full_history, bt_sequence, events, session_end_log, score_calls, shown,
                  stimulus_hidden, session_number_before_start, op>>

\* no function has been called directly
NoCall == [fn |-> "none"]

\* Stats.initialize_session
initialize_session == [k \in SessionKeys |-> <<>>]

\* the channel whose _input (_rt) list is named k
InputOf(k) == CHOOSE x \in InputKeys : InputName(x) = k

RtOf(k) == CHOOSE x \in InputKeys : RtName(x) = k

\* a save_input that does not copy 'vis' into the 'image' list
save_input_without_image(sess, stim, inp, rts, operation) ==
    [k \in SessionKeys |->
        CASE k = "numbers" -> Append(sess[k], stim["number"])
          [] k \in StimKeys \ {"number"} -> Append(sess[k], stim[k])
          [] k = "operation" -> Append(sess[k], operation)
          [] k = "arithmetic_input" -> Append(sess[k], 0)
          [] k \in {InputName(x) : x \in InputKeys} -> Append(sess[k], inp[InputOf(k)])
          [] k \in {RtName(x) : x \in InputKeys} -> Append(sess[k], rts[RtOf(k)])
          [] OTHER -> sess[k]]

\* Stats.save_input(mode) without an arithmetic answer label
save_input(sess, stim, inp, rts, operation) ==
    [k \in SessionKeys |->
        CASE k = "numbers" -> Append(sess[k], stim["number"])
          [] k = "image" -> Append(sess[k], stim["vis"])
          [] k \in StimKeys \ {"number"} -> Append(sess[k], stim[k])
          [] k = "operation" -> Append(sess[k], operation)
          [] k = "arithmetic_input" -> Append(sess[k], 0)
          [] k \in {InputName(x) : x \in InputKeys} -> Append(sess[k], inp[InputOf(k)])
          [] k \in {RtName(x) : x \in InputKeys} -> Append(sess[k], rts[RtOf(k)])
          [] OTHER -> sess[k]]

\* GameSession._reset_input
reset_inputs == [k \in InputKeys |-> FALSE]

reset_input_rts == [k \in InputKeys |-> 0]

\* the empty score map passed to on_session_end on cancellation
EmptyScores == [k \in {} |-> Percentage(0, 0)]

\* an end() that keeps the session counter on cancellation
end_keeping_counter(cancelled, sess, tn) ==
    LET result == calculate_session_score(sess, mode.back, mode.modalities, tn - 1)
    IN  [session_number |-> session_number,
         sessions_today |-> IF cancelled THEN sessions_today ELSE sessions_today + 1,
         score_calls |-> IF cancelled THEN <<>> ELSE <<tn - 1>>,
         payload |-> IF cancelled THEN <<[scores |-> EmptyScores, cancelled |-> TRUE]>>
                     ELSE IF result.fault THEN <<>>
                     ELSE <<[scores |-> result.scores, cancelled |-> FALSE]>>]

\* an end() that scores the live trial too
end_scoring_live_trial(cancelled, sess, tn) ==
    LET result == calculate_session_score(sess, mode.back, mode.modalities, tn)
    IN  [session_number |-> IF cancelled THEN session_number - 1 ELSE session_number,
         sessions_today |-> IF cancelled THEN sessions_today ELSE sessions_today + 1,
         score_calls |-> IF cancelled THEN <<>> ELSE <<tn>>,
         payload |-> IF cancelled THEN <<[scores |-> EmptyScores, cancelled |-> TRUE]>>
                     ELSE IF result.fault THEN <<>>
                     ELSE <<[scores |-> result.scores, cancelled |-> FALSE]>>]

\* GameSession.end called with history sess and trial counter tn: the new
\* counters, the num_trials passed to the ScoreEngine (none when cancelled)
\* and the arguments of on_session_end (none when scoring faults)
end(cancelled, sess, tn) ==
    LET result == calculate_session_score(sess, mode.back, mode.modalities, tn - 1)
    IN  [session_number |-> IF cancelled THEN session_number - 1 ELSE session_number,
         sessions_today |-> IF cancelled THEN sessions_today ELSE sessions_today + 1,
         score_calls |-> IF cancelled THEN <<>> ELSE <<tn - 1>>,
         payload |-> IF cancelled THEN <<[scores |-> EmptyScores, cancelled |-> TRUE]>>
                     ELSE IF result.fault THEN <<>>
                     ELSE <<[scores |-> result.scores, cancelled |-> FALSE]>>]

\* GameSession._get_real_back for trial tn: [fault, value]
get_real_back(tn) ==
    IF mode.crab = 1 THEN [fault |-> FALSE, value |-> 1 + 2 * ((tn - 1) % mode.back)]
    ELSE IF cfg.VARIABLE_NBACK THEN
        IF InRange(variable_list, tn - mode.back - 1)
        THEN [fault |-> FALSE, value |-> At(variable_list, tn - mode.back - 1)]
        ELSE [fault |-> TRUE, value |-> 0]
    ELSE [fault |-> FALSE, value |-> mode.back]

\* GameSession._generate_stimulus for trial tn over history sess:
\* [fault, stim, operation]
generate_stimulus(sess, tn, rng) ==
    LET base == generate_base_stimuli(mode.modalities, mode.multi, rng)
        operation == choose_arithmetic_operation(
                        cfg.ARITHMETIC_USE_ADDITION, cfg.ARITHMETIC_USE_SUBTRACTION,
                        cfg.ARITHMETIC_USE_MULTIPLICATION, cfg.ARITHMETIC_USE_DIVISION,
                        rng.op)
        min_number == IF cfg.ARITHMETIC_USE_NEGATIVES
                      THEN 0 - cfg.ARITHMETIC_MAX_NUMBER ELSE 0
        max_number == cfg.ARITHMETIC_MAX_NUMBER
        active == {mode.modalities[j] : j \in 1..Len(mode.modalities)}
        previous_result ==
            IF operation = "divide" /\ "arithmetic" \in active
               /\ Len(sess["position1"]) >= mode.back
            THEN <<At(sess["numbers"], tn - mode.back - 1)>>
            ELSE None
        number == generate_arithmetic_operand(operation, min_number, max_number,
                        cfg.ARITHMETIC_ACCEPTABLE_DECIMALS, previous_result, rng.number)
        stimuli == [base EXCEPT !["number"] = number]
        real_back == get_real_back(tn)
        matched == IF mode.modalities # <<"arithmetic">> /\ tn > mode.back
                   THEN apply_nback_matching(stimuli, sess, tn, real_back.value,
                            mode.modalities, cfg.CHANCE_OF_GUARANTEED_MATCH,
                            cfg.CHANCE_OF_INTERFERENCE, mode.multi, rng)
                   ELSE stimuli
    IN  IF real_back.fault
        THEN [fault |-> TRUE, stim |-> current_stim, operation |-> operation]
        ELSE [fault |-> FALSE,
              stim |-> apply_static_defaults(matched, mode.modalities,
                                             cfg.VISUAL_COLORS[1]),
              operation |-> operation]

\* a session that ends one trial late
session_complete_late(tn) == tn > mode.num_trials_total + 1

\* 'Check if session complete' of _start_new_trial, tn the incremented counter
session_complete(tn) == tn > mode.num_trials_total

\* GameSession._start_new_trial after 'Increment trial': sess is the history
\* with the previous trial saved, tn the incremented counter, e what end()
\* does and g what _generate_stimulus does there
new_trial_result(sess, tn, t, e, g) ==
    LET common == [session |-> sess, trial_number |-> tn, trial_starttime |-> t]
    IN  IF session_complete(tn) THEN
            common @@
            [started |-> FALSE, paused |-> FALSE,
             session_number |-> e.session_number, sessions_today |-> e.sessions_today,
             current_stim |-> current_stim, current_operation |-> current_operation,
             inputs |-> reset_inputs, input_rts |-> reset_input_rts,
             events |-> IF e.payload = <<>> THEN <<>> ELSE <<"session_end">>,
             session_end_log |-> session_end_log \o e.payload,
             score_calls |-> score_calls \o e.score_calls,
             shown |-> shown, raised |-> e.payload = <<>>]
        ELSE IF g.fault THEN
            common @@
            [started |-> started, paused |-> paused,
             session_number |-> session_number, sessions_today |-> sessions_today,
             current_stim |-> current_stim, current_operation |-> g.operation,
             inputs |-> inputs, input_rts |-> input_rts,
             events |-> <<>>, session_end_log |-> session_end_log,
             score_calls |-> score_calls, shown |-> shown, raised |-> TRUE]
        ELSE
            common @@
            [started |-> started, paused |-> paused,
             session_number |-> session_number, sessions_today |-> sessions_today,
             current_stim |-> g.stim, current_operation |-> g.operation,
             inputs |-> reset_inputs, input_rts |-> reset_input_rts,
             events |-> <<"stimulus_generated", "trial_start">>,
             session_end_log |-> session_end_log,
             score_calls |-> score_calls, shown |-> Append(shown, g.stim),
             raised |-> FALSE]

\* a history that is folded after the input flags were reset
saved_session_after_reset ==
    IF trial_number > 0
    THEN save_input(session, current_stim, reset_inputs, reset_input_rts,
                    current_operation)
    ELSE session

\* the history after 'Save previous trial's input'
saved_session ==
    IF trial_number > 0
    THEN save_input(session, current_stim, inputs, input_rts, current_operation)
    ELSE session

\* what _start_new_trial does on history sess with incremented counter tn
new_trial_on(sess, tn, rng, t) ==
    new_trial_result(sess, tn, t, end(FALSE, sess, tn), generate_stimulus(sess, tn, rng))

\* GameSession._start_new_trial with the random outcomes rng and the clock
\* reading t: the fields it writes and the callbacks it invokes
start_new_trial(rng, t) == new_trial_on(saved_session, trial_number + 1, rng, t)

\* GameSession.__init__ over the fresh Mode and Stats of the setup su
FreshSession(su) ==
    /\ mode = su.mode
    /\ cfg = su.cfg
    /\ started = FALSE
    /\ paused = FALSE
    /\ tick = 0
    /\ trial_number = 0
    /\ session_number = mode.session_number
    /\ sessions_today = 0
    /\ show_missed = FALSE
    /\ trial_starttime = 0
    /\ current_stim = [k \in StimKeys |-> 0]
    /\ current_operation = "none"
    /\ inputs = reset_inputs
    /\ input_rts = reset_input_rts
    /\ session = initialize_session
    /\ variable_list = <<>>
    /\ history = <<>>
    /\ full_history = <<>>
    /\ bt_sequence = <<>>
    /\ events = <<>>
    /\ session_end_log = <<>>
    /\ score_calls = <<>>
    /\ shown = <<>>
    /\ stimulus_hidden = FALSE
    /\ session_number_before_start = None
    /\ op = "init"

\* a fresh session, no function being called directly
Fresh(su) == FreshSession(su) /\ call = NoCall

Init == \E su \in Setups : Fresh(su)

\* the session object has not been started yet
Idle == session_number_before_start = None

\* on_session_end has been invoked
Ended == session_end_log # <<>>

\* a lead-in that takes the image mode's extra delay in every mode
lead_in_tick_image_always ==
    (0 - 9) - 10 * (mode.multi - 1)

\* the tick mode.tick is set to by start()
lead_in_tick ==
    (0 - 9) - 5 * (mode.multi - 1)
    - (IF cfg.MULTI_MODE = "image" THEN 5 * (mode.multi - 1) ELSE 0)

\* generate_variable_nback_sequence: the lists it can return
variable_nback_sequences(n_back, num_trials) ==
    IF num_trials - n_back <= 0 THEN {<<>>}
    ELSE [1..(num_trials - n_back) -> 1..n_back]

\* GameSession.start, called once on a new session object.  The choice of
\* the audio sets is left to the audio collaborator.
Start ==
    /\ Idle
    /\ op' = "start"
    /\ session_number_before_start' = <<session_number>>
    /\ tick' = lead_in_tick
    /\ session_number' = session_number + 1
    /\ trial_number' = 0
    /\ started' = TRUE
    /\ paused' = FALSE
    /\ IF cfg.VARIABLE_NBACK
       THEN variable_list' \in variable_nback_sequences(mode.back, mode.num_trials_total)
       ELSE UNCHANGED variable_list
    /\ IF cfg.JAEGGI_MODE
       THEN bt_sequence' \in compute_jaeggi_sequence(mode.back, mode.num_trials_total)
       ELSE UNCHANGED bt_sequence
    /\ session' = initialize_session
    /\ events' = <<"trial_start">>
    /\ stimulus_hidden' = FALSE
    /\ UNCHANGED <<call, mode, cfg, history, full_history, sessions_today, show_missed, trial_starttime,
                   current_stim, current_operation, inputs, input_rts,
                   session_end_log, score_calls, shown>>

\* a tick that is held in the self-paced window in every mode
next_tick_held_in_every_mode ==
    IF tick > mode.ticks_per_trial - 6 \/ tick < 5 THEN tick + 1 ELSE tick

\* the tick after the self-paced test of update()
next_tick ==
    IF ~mode.selfpaced \/ tick > mode.ticks_per_trial - 6 \/ tick < 5
    THEN tick + 1 ELSE tick

\* len of the position modalities minus one, clamped at 0
positions_count ==
    LET n == Cardinality({j \in 1..Len(mode.modalities) :
                            mode.modalities[j] \in PositionKeys})
    IN  IF n - 1 > 0 THEN n - 1 ELSE 0

\* tick transitions whose feedback step leaves the tick as it is
tick_transitions_without_reset(t1, sm) ==
    LET hide == t1 = 6 + positions_count \/ t1 = mode.ticks_per_trial - 1
        feedback == t1 = mode.ticks_per_trial - 2
    IN  [events |-> (IF hide THEN <<"stimulus_hide">> ELSE <<>>)
                    \o (IF feedback THEN <<"feedback_show">> ELSE <<>>),
         tick |-> IF t1 = mode.ticks_per_trial THEN 0 ELSE t1,
         show_missed |-> IF feedback THEN TRUE ELSE sm]

\* the part of update() after the new-trial step, at tick t1:
\* the callbacks invoked, the final tick and show_missed
tick_transitions(t1, sm) ==
    LET hide == t1 = 6 + positions_count \/ t1 = mode.ticks_per_trial - 1
        feedback == t1 = mode.ticks_per_trial - 2
        t2 == IF feedback THEN 0 ELSE t1
        t3 == IF t2 = mode.ticks_per_trial THEN 0 ELSE t2
    IN  [events |-> (IF hide THEN <<"stimulus_hide">> ELSE <<>>)
                    \o (IF feedback THEN <<"feedback_show">> ELSE <<>>),
         tick |-> t3,
         show_missed |-> IF feedback THEN TRUE ELSE sm]

\* update() reaching tick 1: _start_new_trial, then the tick transitions
\* unless _start_new_trial raised
UpdateNewTrial(rng, t) ==
    \E nt \in {start_new_trial(rng, t)} : LET
        tr == IF nt.raised
              THEN [events |-> <<>>, tick |-> 1, show_missed |-> FALSE]
              ELSE tick_transitions(1, FALSE)
    IN  /\ tick' = tr.tick
        /\ show_missed' = tr.show_missed
        /\ events' = nt.events \o tr.events
        /\ session' = nt.session
        /\ trial_number' = nt.trial_number
        /\ trial_starttime' = nt.trial_starttime
        /\ started' = nt.started
        /\ paused' = nt.paused
        /\ session_number' = nt.session_number
        /\ sessions_today' = nt.sessions_today
        /\ current_stim' = nt.current_stim
        /\ current_operation' = nt.current_operation
        /\ inputs' = nt.inputs
        /\ input_rts' = nt.input_rts
        /\ session_end_log' = nt.session_end_log
        /\ score_calls' = nt.score_calls
        /\ shown' = nt.shown

\* an update() that runs while the session is paused
update_frozen_unless_paused == ~started

\* the early return of update()
update_frozen == ~started \/ paused

\* GameSession.update(dt)
Update ==
    /\ op' = "update"
    /\ UNCHANGED <<call, mode, cfg, history, full_history, bt_sequence, variable_list, session_number_before_start>>
    /\ IF update_frozen THEN
            /\ events' = <<>>
            /\ UNCHANGED <<started, paused, tick, trial_number, session_number,
                           sessions_today, show_missed, trial_starttime, current_stim,
                           current_operation, inputs, input_rts, session,
                           session_end_log, score_calls, shown>>
       ELSE IF next_tick = 1 THEN
            \E rng \in RandomSource, t \in Times : UpdateNewTrial(rng, t)
       ELSE LET tr == tick_transitions(next_tick, show_missed)
            IN  /\ tick' = tr.tick
                /\ show_missed' = tr.show_missed
                /\ events' = tr.events
                /\ UNCHANGED <<started, paused, trial_number, session_number,
                               sessions_today, trial_starttime, current_stim,
                               current_operation, inputs, input_rts, session,
                               session_end_log, score_calls, shown>>
    /\ stimulus_hidden' =
            IF \E i \in 1..Len(events') : events'[i] = "stimulus_hide" THEN TRUE
            ELSE IF \E i \in 1..Len(events') : events'[i] = "stimulus_generated"
                 THEN FALSE
            ELSE stimulus_hidden

\* GameSession.register_input(modality, timestamp): the new flags and times
register_input(modality, timestamp) ==
    IF modality \in InputKeys
    THEN [inputs |-> [inputs EXCEPT ![modality] = TRUE],
          input_rts |-> [input_rts EXCEPT ![modality] = timestamp - trial_starttime]]
    ELSE [inputs |-> inputs, input_rts |-> input_rts]

\* the keys pressed in the session being run
Pressable ==
    (CHOOSE s \in Setups \cup InvalidSetups \cup VariableSetups
                  \cup {JaeggiSetup, PacedSetup, ShortSetup} :
        s.mode = mode /\ s.cfg = cfg).keys

\* GameController.register_player_input(modality), the timestamp being the
\* clock reading taken by register_input
RegisterInput ==
    \E modality \in Pressable, timestamp \in Times :
        /\ timestamp >= trial_starttime
        /\ op' = "register_input"
        /\ events' = <<>>
        /\ IF started
           THEN LET r == register_input(modality, timestamp)
                IN  inputs' = r.inputs /\ input_rts' = r.input_rts
           ELSE UNCHANGED <<inputs, input_rts>>
        /\ UNCHANGED <<call, mode, cfg, history, full_history, bt_sequence, stimulus_hidden,
                   started, paused, tick, trial_number, session_number,
                       sessions_today, show_missed, trial_starttime, current_stim,
                       current_operation, session, variable_list, session_end_log,
                       score_calls, shown, session_number_before_start>>

\* GameSession.end(cancelled), called by the host on a running or paused session
End ==
    \E cancelled \in BOOLEAN :
        \E e \in {end(cancelled, session, trial_number)} :
            /\ started
            /\ op' = "end"
            /\ session_number' = e.session_number
            /\ sessions_today' = e.sessions_today
            /\ started' = FALSE
            /\ paused' = FALSE
            /\ inputs' = reset_inputs
            /\ input_rts' = reset_input_rts
            /\ score_calls' = score_calls \o e.score_calls
            /\ session_end_log' = session_end_log \o e.payload
            /\ events' = IF e.payload = <<>> THEN <<>> ELSE <<"session_end">>
            /\ UNCHANGED <<call, mode, cfg, history, full_history, bt_sequence, stimulus_hidden,
                   tick, trial_number, show_missed, trial_starttime,
                           current_stim, current_operation, session, variable_list,
                           shown, session_number_before_start>>

\* GameSession.pause
Pause ==
    /\ op' = "pause"
    /\ paused' = TRUE
    /\ events' = <<>>
    /\ UNCHANGED <<call, mode, cfg, history, full_history, bt_sequence, stimulus_hidden,
                   started, tick, trial_number, session_number,
                   sessions_today, show_missed, trial_starttime, current_stim,
                   current_operation, inputs, input_rts, session, variable_list,
                   session_end_log, score_calls, shown, session_number_before_start>>

\* a resume() that restarts the tick
Resume_restarting_tick ==
    /\ op' = "resume"
    /\ paused' = FALSE
    /\ tick' = 0
    /\ events' = <<>>
    /\ UNCHANGED <<call, mode, cfg, history, full_history, bt_sequence, stimulus_hidden,
                   started, trial_number, session_number,
                   sessions_today, show_missed, trial_starttime, current_stim,
                   current_operation, inputs, input_rts, session, variable_list,
                   session_end_log, score_calls, shown, session_number_before_start>>

\* GameSession.resume
Resume ==
    /\ op' = "resume"
    /\ paused' = FALSE
    /\ events' = <<>>
    /\ UNCHANGED <<call, mode, cfg, history, full_history, bt_sequence, stimulus_hidden,
                   started, tick, trial_number, session_number,
                   sessions_today, show_missed, trial_starttime, current_stim,
                   current_operation, inputs, input_rts, session, variable_list,
                   session_end_log, score_calls, shown, session_number_before_start>>

Next == Start \/ Update \/ RegisterInput \/ End \/ Pause \/ Resume

Spec == Init /\ [][Next]_vars

\* sessions created over an invalid configuration
InvalidInit == \E su \in InvalidSetups : Fresh(su)

InvalidSpec == InvalidInit /\ [][Next]_vars

(***************************************************************************)
(* Properties of the session state machine.                                *)
(***************************************************************************)
\* number of trials folded into the history
TrialsCompleted == IF trial_number = 0 THEN 0 ELSE trial_number - 1

\* the callbacks that belong to a running trial
TrialEvents == {"stimulus_generated", "trial_start", "stimulus_hide", "feedback_show"}

\* C1: every list of the history has one entry per completed trial (none
\* before the first trial, trial counter - 1 afterwards), and entry i holds
\* the stimulus generated for trial i.
C1_HistoryAligned ==
    /\ \A k \in SessionKeys : Len(session[k]) = TrialsCompleted
    /\ \A i \in 1..TrialsCompleted :
        /\ \A k \in StimKeys \ {"number"} : session[k][i] = shown[i][k]
        /\ session["numbers"][i] = shown[i]["number"]
        /\ session["image"][i] = shown[i]["vis"]

\* two trials are in the history, with different stimuli and a recorded press
C1_Witness ==
    /\ TrialsCompleted = 2
    /\ session["position1"][1] # session["position1"][2]
    /\ session["audio_input"][2]
    /\ ~session["audio_input"][1]

\* C2: a stimulus is generated for each started trial up to the configured
\* total and for none after it: the counter never passes total + 1, and when
\* it reaches total + 1 the session has ended with exactly total stimuli
\* generated and the ending update invoked no generator callback.
C2_GeneratesExactlyTotal ==
    /\ trial_number <= mode.num_trials_total + 1
    /\ Len(shown) = IF trial_number <= mode.num_trials_total
                    THEN trial_number ELSE mode.num_trials_total
    /\ trial_number > mode.num_trials_total =>
        /\ Ended
        /\ ~started
        /\ ~session_end_log[1].cancelled
    /\ (op = "update" /\ \E i \in 1..Len(events) : events[i] = "session_end") =>
        \A i \in 1..Len(events) : events[i] # "stimulus_generated"

\* the update that passed the total has just ended the session
C2_Witness ==
    /\ op = "update"
    /\ trial_number = mode.num_trials_total + 1
    /\ events[1] = "session_end"
    /\ Len(shown) = mode.num_trials_total

\* C3: an update() on a session that is not started, has ended or is paused
\* changes neither tick, trial counter, stimulus, inputs nor history and
\* invokes no callback.
C3_AdvanceFrozen ==
    [][(op' = "update" /\ (~started \/ paused)) =>
         /\ UNCHANGED <<tick, trial_number, current_stim, inputs, input_rts, session,
                        started, paused, show_missed>>
         /\ events' = <<>>]_vars

\* update() has been called on a paused session in the middle of a trial
C3_Witness ==
    /\ op = "update"
    /\ started
    /\ paused
    /\ trial_number >= 1
    /\ tick >= 1

\* C4: in self-paced mode, once the player has given an input in the current
\* trial, an update() of the running session moves the tick.
C4_InputReleasesHold ==
    [][(/\ op' = "update"
        /\ mode.selfpaced
        /\ started
        /\ ~paused
        /\ \E k \in InputKeys : inputs[k]) => tick' # tick]_vars

\* C5: registering a channel whose flag is already set leaves the flag set
\* and the reaction time at the first registration's value.
C5_FirstInputWins ==
    [][(op' = "register_input" /\ started) =>
         \A k \in InputKeys :
            inputs[k] => (inputs'[k] /\ input_rts'[k] = input_rts[k])]_vars

\* C6: an input registered while the session is paused, not started or ended
\* changes no input flag and no reaction time.
C6_InputOnlyWhileRunning ==
    [][(op' = "register_input" /\ (~started \/ paused)) =>
         UNCHANGED <<inputs, input_rts>>]_vars

\* C7: a cancelled session leaves the session counter at its value before
\* start(), calls no scoring, and passes the empty score map to on_session_end.
C7_CancelRestoresCounter ==
    (Ended /\ session_end_log[1].cancelled) =>
        /\ session_number = session_number_before_start[1]
        /\ score_calls = <<>>
        /\ DOMAIN session_end_log[1].scores = {}
        /\ Len(session_end_log) = 1
        /\ op = "end" => events = <<"session_end">>

\* a paused session was cancelled during its second trial
C7_Witness ==
    /\ op = "end"
    /\ Ended
    /\ session_end_log[1].cancelled
    /\ trial_number = 2
    /\ session_number = session_number_before_start[1]

\* C8: on_session_end is the last callback of the operation that invokes it,
\* and after it no trial callback is invoked and tick and trial counter stay.
C8_EndedIsTerminal ==
    [][/\ \A i \in 1..Len(events') :
            events'[i] = "session_end" => i = Len(events')
       /\ Ended =>
            /\ UNCHANGED <<tick, trial_number>>
            /\ \A i \in 1..Len(events') : events'[i] \notin TrialEvents]_vars

\* C9: a session ended without cancelling after its first trial started is
\* scored over trial counter - 1 trials, which is the length of every history
\* list, and on_session_end receives the scores of that history.
C9_ScoresCompletedTrials ==
    (Ended /\ ~session_end_log[1].cancelled /\ trial_number >= 1) =>
        /\ score_calls = <<trial_number - 1>>
        /\ \A k \in SessionKeys : Len(session[k]) = score_calls[1]
        /\ session_end_log[1].scores =
             calculate_session_score(session, mode.back, mode.modalities,
                                     Len(session["position1"])).scores

\* the host ended a session in its second trial: one trial is scored
C9_Witness ==
    /\ op = "end"
    /\ Ended
    /\ ~session_end_log[1].cancelled
    /\ trial_number = 2
    /\ Len(session["audio"]) = 1

\* C10: pause() and resume() write the paused flag only, and update() on a
\* paused session changes nothing, so pause ... resume leaves the session as
\* it was.
C10_PauseResumeFrame ==
    [][/\ op' \in {"pause", "resume"} =>
            /\ paused' = (op' = "pause")
            /\ UNCHANGED <<started, tick, trial_number, session_number, sessions_today,
                           show_missed, trial_starttime, current_stim,
                           current_operation, inputs, input_rts, session>>
       /\ (op' = "update" /\ paused) =>
            UNCHANGED <<paused, tick, trial_number, current_stim, inputs, input_rts,
                        session>>]_vars

\* a running session in the middle of a trial has just been resumed
C10_Witness ==
    /\ op = "resume"
    /\ started
    /\ ~paused
    /\ trial_number >= 1
    /\ tick >= 2

(***************************************************************************)
(* Properties of start() on an invalid configuration.                      *)
(***************************************************************************)
\* the configuration of the mode is invalid
InvalidConfig ==
    \/ mode.modalities = <<>>
    \/ mode.back <= 0
    \/ mode.multi \notin 1..4

\* C11: start() on an invalid configuration creates no session: the object
\* stays not started, the session counter, the tick and the history keep
\* their values and no callback is invoked.
C11_InvalidStartFailsFast ==
    [][(op' = "start" /\ InvalidConfig) =>
         /\ UNCHANGED <<started, session_number, tick, trial_number, session>>
         /\ events' = <<>>]_vars

(***************************************************************************)
(* Direct calls of the ScoreEngine (domain/match_checker.py) on sampled    *)
(* histories.  The session object stays as constructed.                    *)
(***************************************************************************)
\* longest sampled history
MaxHist == 3
\* largest sampled n-back level
MaxBack == 2

\* stimulus values of the sampled histories
StimValues == 1..2

\* operands, operations and recorded answers of the sampled histories
Operands == {0, 4, 10}

Operations == {"add", "subtract", "multiply", "divide", "none"}

RecordedAnswers == {0, 14}

\* answers passed to check_arithmetic_match, in hundredths
Answers100 == {0, 250, 251, 260, 600, 1400, 4000}

\* the lists of length len over S
ListsOf(S, len) == [1..len -> S]

\* the list of length len holding v everywhere
Repeat(v, len) == [i \in 1..len |-> v]

\* a Stats.session whose visual lists are x, audio lists y, input lists inp,
\* and arithmetic lists nums, ops and ans, all of one length
history_of(x, y, inp, nums, ops, ans) ==
    [k \in SessionKeys |->
        CASE k \in {"audio", "audio2"} -> y
          [] k \in (StimKeys \ {"number"}) \cup {"image"} -> x
          [] k = "numbers" -> nums
          [] k = "operation" -> ops
          [] k = "arithmetic_input" -> ans
          [] k \in {InputName(m) : m \in InputKeys} -> inp
          [] OTHER -> Repeat(0, Len(x))]

\* histories that vary in the stimuli and the inputs
ModalityHistories ==
    UNION {{history_of(x, y, inp, Repeat(0, len), Repeat("add", len), Repeat(0, len)) :
                x \in ListsOf(StimValues, len), y \in ListsOf(StimValues, len),
                inp \in ListsOf(BOOLEAN, len)} : len \in 0..MaxHist}

\* histories that vary in the operands, the operation and the answer
ArithmeticHistories ==
    UNION {{history_of(Repeat(1, len), Repeat(1, len), Repeat(FALSE, len), nums,
                       Repeat(o, len), Repeat(a, len)) :
                nums \in ListsOf(Operands, len), o \in Operations,
                a \in RecordedAnswers} : len \in 0..MaxHist}

\* the modality lists passed to calculate_session_score
ModalityLists ==
    {<<"position1", "audio">>, <<"position1", "arithmetic">>,
     <<"position1", "visaudio", "audiovis">>}

\* the non-arithmetic channels
Channels == InputKeys

\* trial numbers and trial counts passed to the functions
TrialNumbers == 1..(MaxHist + 1)

TrialCounts == 0..(MaxHist + 1)

ScoreInit ==
    /\ FreshSession(CHOOSE su \in Setups : su.mode.session_number = 0)
    /\ \E h \in ModalityHistories \cup ArithmeticHistories, n \in 1..MaxBack :
        call = [fn |-> "none", session_history |-> h, n_back |-> n]

\* the call of fn on the sampled history and level, with the further
\* arguments args, having returned ret
Called(fn, args, ret) ==
    [fn |-> fn, session_history |-> call.session_history, n_back |-> call.n_back,
     args |-> args, ret |-> ret]

\* no call has been made yet on the sampled history
Uncalled == call.fn = "none"

CheckPositionMatch ==
    /\ Uncalled
    /\ UNCHANGED session_vars
    /\ \E trial_no \in TrialNumbers, position_key \in PositionKeys :
        call' = Called("check_position_match", [trial_number |-> trial_no, key |-> position_key],
                       check_position_match(call.session_history, trial_no, call.n_back,
                                            position_key))

CheckAudioMatch ==
    /\ Uncalled
    /\ UNCHANGED session_vars
    /\ \E trial_no \in TrialNumbers, audio_key \in {"audio", "audio2"} :
        call' = Called("check_audio_match", [trial_number |-> trial_no, key |-> audio_key],
                       check_audio_match(call.session_history, trial_no, call.n_back, audio_key))

CheckColorMatch ==
    /\ Uncalled
    /\ UNCHANGED session_vars
    /\ \E trial_no \in TrialNumbers :
        call' = Called("check_color_match", [trial_number |-> trial_no, key |-> "color"],
                       check_color_match(call.session_history, trial_no, call.n_back))

CheckImageMatch ==
    /\ Uncalled
    /\ UNCHANGED session_vars
    /\ \E trial_no \in TrialNumbers :
        call' = Called("check_image_match", [trial_number |-> trial_no, key |-> "image"],
                       check_image_match(call.session_history, trial_no, call.n_back))

CheckCombinationMatch ==
    /\ Uncalled
    /\ UNCHANGED session_vars
    /\ \E trial_no \in TrialNumbers, combination_type \in {"visvis", "visaudio", "audiovis"} :
        call' = Called("check_combination_match",
                       [trial_number |-> trial_no, key |-> combination_type],
                       check_combination_match(call.session_history, trial_no, call.n_back,
                                               combination_type))

CheckArithmeticMatch ==
    /\ Uncalled
    /\ UNCHANGED session_vars
    /\ \E trial_no \in TrialNumbers, answer100 \in Answers100 :
        call' = Called("check_arithmetic_match",
                       [trial_number |-> trial_no, answer100 |-> answer100],
                       check_arithmetic_match(call.session_history, trial_no, call.n_back,
                                              answer100))

CalculateModalityScore ==
    /\ Uncalled
    /\ UNCHANGED session_vars
    /\ \E modality \in Channels, num_trials \in TrialCounts :
        call' = Called("calculate_modality_score",
                       [modality |-> modality, num_trials |-> num_trials],
                       calculate_modality_score(call.session_history, call.n_back, modality,
                                                num_trials))

CalculateArithmeticScore ==
    /\ Uncalled
    /\ UNCHANGED session_vars
    /\ \E num_trials \in TrialCounts :
        call' = Called("calculate_arithmetic_score", [num_trials |-> num_trials],
                       calculate_arithmetic_score(call.session_history, call.n_back, num_trials))

CalculateSessionScore ==
    /\ Uncalled
    /\ UNCHANGED session_vars
    /\ \E modalities \in ModalityLists, num_trials \in TrialCounts :
        call' = Called("calculate_session_score",
                       [modalities |-> modalities, num_trials |-> num_trials],
                       calculate_session_score(call.session_history, call.n_back, modalities,
                                               num_trials))

ScoreNext ==
    \/ CheckPositionMatch
    \/ CheckAudioMatch
    \/ CheckColorMatch
    \/ CheckImageMatch
    \/ CheckCombinationMatch
    \/ CheckArithmeticMatch
    \/ CalculateModalityScore
    \/ CalculateArithmeticScore
    \/ CalculateSessionScore

ScoreSpec == ScoreInit /\ [][ScoreNext]_vars

(***************************************************************************)
(* Properties of the ScoreEngine.                                          *)
(***************************************************************************)
CheckFns ==
    {"check_position_match", "check_audio_match", "check_color_match",
     "check_image_match", "check_combination_match", "check_arithmetic_match"}

\* number of recorded trials of the sampled history (its lists have one length)
HistLen == Len(call.session_history["position1"])

\* the match state of a channel at a recorded trial: its value equals its
\* value n trials earlier, visvis comparing vis with vis, visaudio vis now
\* with audio n back, audiovis audio now with vis n back
ChannelMatches(h, channel, trial, n) ==
    LET now == IF channel \in {"visvis", "visaudio"} THEN "vis"
               ELSE IF channel = "audiovis" THEN "audio" ELSE channel
        before == IF channel \in {"visvis", "audiovis"} THEN "vis"
                  ELSE IF channel = "visaudio" THEN "audio" ELSE channel
    IN  h[now][trial] = h[before][trial - n]

\* the scoreable trials among the first num_trials for level n
ScoreableTrials(n, num_trials) == (n + 1)..num_trials

\* x clamped at 0
Max0(x) == IF x > 0 THEN x ELSE 0

\* C12: no trial with trial number <= n is a match or scoreable: every
\* check_*_match returns false for it, and the scoring loops count at most
\* the trials after the n-th (nothing at all when num_trials <= n).
C12_WarmUpNeverCounts ==
    /\ (call.fn \in CheckFns /\ call.args.trial_number <= call.n_back) =>
            call.ret = Ok(FALSE)
    /\ call.fn \in {"calculate_modality_score", "calculate_arithmetic_score"} =>
        /\ call.ret.possible_hits <= Max0(call.args.num_trials - call.n_back)
        /\ call.ret.hits <= call.ret.possible_hits
        /\ call.args.num_trials <= call.n_back =>
                (~call.ret.fault /\ call.ret.hits = 0 /\ call.ret.possible_hits = 0)

\* a warm-up trial whose value equals the first trial's is checked, and not a match
C12_Witness ==
    /\ call.fn = "check_position_match"
    /\ call.n_back = 2
    /\ call.args.trial_number = 2
    /\ HistLen >= 2
    /\ call.session_history[call.args.key][1] = call.session_history[call.args.key][2]
    /\ call.ret = Ok(FALSE)

\* C13: over recorded trials, calculate_modality_score counts every
\* scoreable trial, and counts it as correct exactly when the channel's
\* match state equals the recorded input, for every non-arithmetic channel.
C13_CorrectIffMatchEqualsInput ==
    (call.fn = "calculate_modality_score" /\ call.args.num_trials <= HistLen) =>
        /\ ~call.ret.fault
        /\ call.ret.possible_hits
             = Cardinality(ScoreableTrials(call.n_back, call.args.num_trials))
        /\ call.ret.hits
             = Cardinality({t \in ScoreableTrials(call.n_back, call.args.num_trials) :
                    ChannelMatches(call.session_history, call.args.modality, t,
                                   call.n_back)
                    = call.session_history[InputName(call.args.modality)][t]})

\* every scoreable recorded trial has the input equal to (perfect = TRUE) or
\* opposite to (perfect = FALSE) the match state of the scored channel
InputsFollowMatches(perfect) ==
    \A t \in ScoreableTrials(call.n_back, call.args.num_trials) :
        (ChannelMatches(call.session_history, call.args.modality, t, call.n_back)
            = call.session_history[InputName(call.args.modality)][t]) = perfect

\* C14: a channel whose input is true on every matching trial and false on
\* every other trial, with at least one scoreable trial, scores exactly 100%.
C14_PerfectInputScores100 ==
    (/\ call.fn = "calculate_modality_score"
     /\ call.args.num_trials <= HistLen
     /\ call.args.num_trials > call.n_back
     /\ InputsFollowMatches(TRUE)) =>
        /\ ~call.ret.fault
        /\ call.ret.percentage.den > 0
        /\ call.ret.percentage.num = 100 * call.ret.percentage.den

\* two scoreable trials, a pressed match and an unpressed non-match, score 100%
C14_Witness ==
    /\ call.fn = "calculate_modality_score"
    /\ call.args.modality = "visaudio"
    /\ call.n_back = 1
    /\ call.args.num_trials = 3
    /\ HistLen = 3
    /\ InputsFollowMatches(TRUE)
    /\ call.session_history["visaudio_input"][2]
    /\ ~call.session_history["visaudio_input"][3]
    /\ call.ret.hits = 2

\* C15: a channel whose input is on every trial the negation of the match
\* state scores exactly 0%.
C15_InvertedInputScores0 ==
    (/\ call.fn = "calculate_modality_score"
     /\ call.args.num_trials <= HistLen
     /\ InputsFollowMatches(FALSE)) =>
        /\ ~call.ret.fault
        /\ call.ret.percentage.num = 0

\* the sum of count[i] over the list positions i of modalities, count[i] <= MaxHist + 1
PooledSum(modalities, count) ==
    Cardinality({p \in (1..Len(modalities)) \X (1..(MaxHist + 1)) : p[2] <= count[p[1]]})

\* C16: the 'overall' entry is the summed hits of the active channels over
\* their summed scoreable trials, times 100, and 0 when nothing is scoreable.
C16_OverallIsPooled ==
    (call.fn = "calculate_session_score" /\ ~call.ret.fault) =>
        LET mods == call.args.modalities
            per == [i \in 1..Len(mods) |->
                        score_of(call.session_history, call.n_back, mods[i],
                                 call.args.num_trials)]
            correct == PooledSum(mods, [i \in 1..Len(mods) |-> per[i].hits])
            scoreable == PooledSum(mods, [i \in 1..Len(mods) |-> per[i].possible_hits])
            overall == call.ret.scores["overall"]
        IN  /\ overall.den > 0
            /\ scoreable = 0 => overall.num = 0
            /\ scoreable > 0 => overall.num * scoreable = 100 * correct * overall.den
            /\ \A i \in 1..Len(mods) : call.ret.scores[mods[i]] = per[i].percentage

\* a channel at 1 of 2 and a channel at 1 of 1 give 2 of 3, not the mean 75%
C16_Witness ==
    /\ call.fn = "calculate_session_score"
    /\ call.args.modalities = <<"position1", "arithmetic">>
    /\ ~call.ret.fault
    /\ call.ret.scores["position1"] = [num |-> 100, den |-> 2]
    /\ call.ret.scores["arithmetic"] = [num |-> 100, den |-> 1]
    /\ call.ret.scores["overall"] = [num |-> 200, den |-> 3]

\* the arithmetic check is called on a recorded scoreable trial
ArithmeticCallOnRecordedTrial ==
    /\ call.fn = "check_arithmetic_match"
    /\ call.args.trial_number > call.n_back
    /\ call.args.trial_number <= HistLen

\* the operand n trials back, the current operand and the current operation
\* of that call
NbackOperand == call.session_history["numbers"][call.args.trial_number - call.n_back]

CurrentOperand == call.session_history["numbers"][call.args.trial_number]

CurrentOperation == call.session_history["operation"][call.args.trial_number]

\* C17: on a recorded scoreable trial check_arithmetic_match does not fault
\* and returns true exactly when the answer is nback + current (add),
\* nback - current (subtract) or nback * current (multiply); for divide it
\* returns false when the current operand is 0, true when the answer is
\* closer than 0.01 to nback / current and false when it is farther.
C17_ArithmeticExpectedValue ==
    ArithmeticCallOnRecordedTrial =>
        LET a == call.args.answer100
            off == Abs(a * CurrentOperand - 100 * NbackOperand)
        IN  /\ ~call.ret.fault
            /\ CurrentOperation = "add" =>
                    call.ret.value = (a = 100 * (NbackOperand + CurrentOperand))
            /\ CurrentOperation = "subtract" =>
                    call.ret.value = (a = 100 * (NbackOperand - CurrentOperand))
            /\ CurrentOperation = "multiply" =>
                    call.ret.value = (a = 100 * (NbackOperand * CurrentOperand))
            /\ (CurrentOperation = "divide" /\ CurrentOperand = 0) => ~call.ret.value
            /\ (CurrentOperation = "divide" /\ CurrentOperand # 0) =>
                    /\ off < Abs(CurrentOperand) => call.ret.value
                    /\ off > Abs(CurrentOperand) => ~call.ret.value

\* 10 - 4 = 6 is accepted on a subtract trial
C17_Witness ==
    /\ ArithmeticCallOnRecordedTrial
    /\ CurrentOperation = "subtract"
    /\ NbackOperand = 10
    /\ CurrentOperand = 4
    /\ call.args.answer100 = 600
    /\ call.ret = Ok(TRUE)

\* C18: on a divide trial with operand 10 n back and current operand 4 the
\* answers 2.5 and 2.51 are correct and the answer 2.6 is not.
C18_DivisionTolerance ==
    (/\ ArithmeticCallOnRecordedTrial
     /\ CurrentOperation = "divide"
     /\ NbackOperand = 10
     /\ CurrentOperand = 4) =>
        /\ call.args.answer100 = 250 => call.ret = Ok(TRUE)
        /\ call.args.answer100 = 251 => call.ret = Ok(TRUE)
        /\ call.args.answer100 = 260 => call.ret = Ok(FALSE)

\* the answer 2.51 to 10 / 4 has been checked and accepted
C18_Witness ==
    /\ ArithmeticCallOnRecordedTrial
    /\ CurrentOperation = "divide"
    /\ NbackOperand = 10
    /\ CurrentOperand = 4
    /\ call.args.answer100 = 251
    /\ call.ret = Ok(TRUE)

\* C19: no match-checking function and no scoring loop faults, whatever the
\* trial number, the level and the length of the history are.
C19_NeverFaults ==
    call.fn # "none" => ~call.ret.fault

(***************************************************************************)
(* Direct calls of the StimulusGenerator (domain/stimulus_generator.py) on *)
(* sampled outcomes of the random module.                                  *)
(***************************************************************************)
\* the outcomes of random.sample(range(1, 9), 4)
PositionSamples ==
    {p \in [1..4 -> 1..8] : \A i, j \in 1..4 : i # j => p[i] # p[j]}

\* the outcomes of the random calls of generate_base_stimuli: the sample p,
\* the randint(1, 8) calls returning v for the vis and color stimuli and w
\* for the audio stimuli
BaseRng(p, v, w) ==
    [Rng(1) EXCEPT !.positions = p, !.vis4 = [i \in 1..4 |-> v], !.color = v,
                   !.vis = v, !.audio = w, !.audio2 = w]

\* the modality lists passed to the generator
GeneratorModalities ==
    {<<"audio">>, <<"position1", "audio">>,
     <<"position1", "position2", "position3", "position4", "color">>}

GenInit ==
    /\ FreshSession(CHOOSE su \in Setups : su.mode.session_number = 0)
    /\ \E p \in PositionSamples, v \in {1, 8}, w \in 1..8 :
        call = [fn |-> "none", rng |-> BaseRng(p, v, w)]

GenerateBaseStimuli ==
    /\ Uncalled
    /\ UNCHANGED session_vars
    /\ \E modalities \in GeneratorModalities, multi_mode \in 1..4 :
        call' = [fn |-> "generate_base_stimuli", rng |-> call.rng,
                 args |-> [modalities |-> modalities, multi_mode |-> multi_mode],
                 ret |-> generate_base_stimuli(modalities, multi_mode, call.rng)]

GenNext == GenerateBaseStimuli

GenSpec == GenInit /\ [][GenNext]_vars

\* C20: generate_base_stimuli returns four pairwise distinct positions in
\* 1..8 and a color, vis, audio and audio2 in 1..8, whatever the modality
\* list and the number of simultaneous stimuli are.
C20_BasePositionsDistinct ==
    call.fn = "generate_base_stimuli" =>
        /\ \A k \in PositionKeys \cup {"color", "vis", "audio", "audio2"} :
                call.ret[k] \in 1..8
        /\ \A k1, k2 \in PositionKeys : k1 # k2 => call.ret[k1] # call.ret[k2]

\* four simultaneous stimuli generated while no position channel is active
C20_Witness ==
    /\ call.fn = "generate_base_stimuli"
    /\ call.args.multi_mode = 4
    /\ call.args.modalities = <<"audio">>
    /\ call.ret["position1"] = 8
    /\ call.ret["position4"] = 1
    /\ call.ret["audio"] = 8

(***************************************************************************)
(* Direct calls of apply_nback_matching and generate_arithmetic_operand on *)
(* sampled stimulus maps, histories and outcomes of the random module.     *)
(***************************************************************************)
\* sampled rows <<position1, .., position4>>; the last one repeats position1
\* in position4, as a row of a session showing fewer than four stimuli can
PositionRows ==
    {<<1, 2, 3, 4>>, <<2, 1, 4, 3>>, <<3, 4, 1, 2>>, <<2, 3, 1, 2>>}

\* the stimulus map whose positions are the row p; the other stimuli are
\* taken from the same row
stim_of_row(p) ==
    [k \in StimKeys |->
        CASE k \in PositionKeys -> p[PositionIndex(k)]
          [] k = "vis1" -> p[2]
          [] k = "vis2" -> p[3]
          [] k = "vis3" -> p[4]
          [] k = "vis4" -> p[1]
          [] k = "color" -> p[1]
          [] k = "audio2" -> p[2]
          [] k = "vis" -> p[3]
          [] k = "audio" -> p[4]
          [] OTHER -> 0]

\* the history lists after the trials whose stimulus maps are the rows
history_of_rows(rows) ==
    [k \in StimKeys |-> [t \in 1..Len(rows) |-> stim_of_row(rows[t])[k]]]

\* the modality lists and numbers of simultaneous stimuli of the calls
MatchingModes ==
    {[modalities |-> <<"position1", "audio">>, multi_mode |-> 1],
     [modalities |-> <<"visvis", "visaudio", "audiovis", "audio">>, multi_mode |-> 1],
     [modalities |-> <<"position1", "position2", "audio">>, multi_mode |-> 2],
     [modalities |-> <<"position1", "vis1", "position2", "vis2">>, multi_mode |-> 2],
     [modalities |-> <<"position1", "position2", "position3", "color">>, multi_mode |-> 3],
     [modalities |-> <<"position1", "position2", "position3", "position4">>,
      multi_mode |-> 4]}

\* outcomes of the random calls of apply_nback_matching: r1 draws of the
\* modalities (all below the chance, none, or every other one), the r2 draws
\* with the shuffle of the interference list, and the reversal draws
MatchingRngs ==
    {[Rng(1) EXCEPT !.r1 = r1, !.r2 = [j \in 1..4 |-> r2], !.shuffle = [j \in 1..4 |-> perm],
                    !.rev = rv.rev, !.rev_vis = rv.rev_vis, !.offset = rv.offset] :
        r1 \in {[j \in 1..4 |-> 0], [j \in 1..4 |-> 999],
                [j \in 1..4 |-> IF j % 2 = 1 THEN 0 ELSE 999],
                [j \in 1..4 |-> IF j % 2 = 0 THEN 0 ELSE 999]},
        r2 \in {0, 999},
        perm \in {<<1, 2, 3>>, <<3, 2, 1>>},
        rv \in {[rev |-> 999, rev_vis |-> 999, offset |-> 0],
                [rev |-> 0, rev_vis |-> 999, offset |-> 0],
                [rev |-> 0, rev_vis |-> 999, offset |-> 1],
                [rev |-> 0, rev_vis |-> 0, offset |-> 0]}}

MatchInit ==
    /\ FreshSession(CHOOSE su \in Setups : su.mode.session_number = 0)
    /\ \E rows \in UNION {[1..n -> PositionRows] : n \in 1..MaxHist},
          base \in PositionRows, n_back \in 1..MaxBack :
        call = [fn |-> "none", rows |-> rows, base |-> base, n_back |-> n_back]

\* one call of apply_nback_matching for the trial that follows the history
ApplyNbackMatching ==
    /\ Uncalled
    /\ UNCHANGED session_vars
    /\ \E m \in MatchingModes, rng \in MatchingRngs :
        call' = [fn |-> "apply_nback_matching",
                 args |-> [current_stim |-> stim_of_row(call.base),
                           session_history |-> history_of_rows(call.rows),
                           trial_number |-> Len(call.rows) + 1,
                           n_back |-> call.n_back,
                           modalities |-> m.modalities,
                           multi_mode |-> m.multi_mode,
                           rng |-> rng],
                 ret |-> apply_nback_matching(stim_of_row(call.base),
                            history_of_rows(call.rows), Len(call.rows) + 1,
                            call.n_back, m.modalities,
                            Config.CHANCE_OF_GUARANTEED_MATCH,
                            Config.CHANCE_OF_INTERFERENCE, m.multi_mode, rng)]

MatchNext == ApplyNbackMatching

MatchSpec == MatchInit /\ [][MatchNext]_vars

\* position1..position{multi} of the stimulus map are pairwise distinct
DistinctShown(stim, multi) ==
    \A i, j \in 1..multi : i # j => stim[PositionName(i)] # stim[PositionName(j)]

\* the row of the history lists recorded at trial t
HistoryRow(session_history, t) ==
    [k \in StimKeys |-> session_history[k][t]]

\* C21: in a multi-stimulus mode (2..4 shown positions), when the base map
\* and every history row have pairwise distinct position1..position{multi},
\* the map apply_nback_matching returns has them pairwise distinct too,
\* whatever guaranteed matches, interferences, collision swaps and reversal
\* happen.
C21_MatchingKeepsPositionsDistinct ==
    (/\ call.fn = "apply_nback_matching"
     /\ call.args.multi_mode \in 2..4
     /\ DistinctShown(call.args.current_stim, call.args.multi_mode)
     /\ \A t \in 1..(call.args.trial_number - 1) :
            DistinctShown(HistoryRow(call.args.session_history, t),
                          call.args.multi_mode))
    => DistinctShown(call.ret, call.args.multi_mode)

\* a guaranteed match of position1 on the cell position2 holds: the two
\* positions are swapped
C21_Witness ==
    /\ call.fn = "apply_nback_matching"
    /\ call.args.multi_mode = 2
    /\ call.args.modalities = <<"position1", "position2", "audio">>
    /\ call.args.trial_number = 2
    /\ call.args.n_back = 1
    /\ call.args.current_stim["position1"] = 1
    /\ call.args.current_stim["position2"] = 2
    /\ call.args.session_history["position1"] = <<2>>
    /\ call.args.rng.r1[1] = 0
    /\ call.args.rng.r1[2] = 999
    /\ call.args.rng.rev = 999
    /\ call.ret["position1"] = 2
    /\ call.ret["position2"] = 1

\* C22: on a trial past the warm-up, every active non-arithmetic channel
\* whose guaranteed-match draw succeeds (r1 below the chance) is a match in
\* the returned map: its current-side stimulus equals its history-side
\* stimulus n_back trials earlier.
C22_GuaranteedMatchIsMatch ==
    (/\ call.fn = "apply_nback_matching"
     /\ call.args.trial_number > call.args.n_back)
    => \A j \in 1..Len(call.args.modalities) :
        (/\ call.args.modalities[j] # "arithmetic"
         /\ call.args.rng.r1[j] < Config.CHANCE_OF_GUARANTEED_MATCH)
        => call.ret[current_key(call.args.modalities[j])]
             = At(call.args.session_history[back_data_key(call.args.modalities[j])],
                  call.args.trial_number - call.args.n_back - 1)

(***************************************************************************)
(* compute_jaeggi_sequence (domain/stimulus_generator.py) step by step:    *)
(* call.pc is the position in the function, call.bt_sequence, position,    *)
(* audio and both are its local variables.                                 *)
(***************************************************************************)
\* the sampled calls: two pairs that can be satisfied, one with fewer than
\* six trials after the warm-up, and one with a warm-up longer than the session
JaeggiCalls ==
    {[n_back |-> 1, num_trials |-> 11], [n_back |-> 2, num_trials |-> 13],
     [n_back |-> 1, num_trials |-> 6], [n_back |-> 3, num_trials |-> 2]}

JaeggiInit ==
    /\ FreshSession(CHOOSE su \in Setups : su.mode.session_number = 0)
    /\ \E c \in JaeggiCalls :
        call = [fn |-> "compute_jaeggi_sequence", pc |-> "start",
                n_back |-> c.n_back, num_trials |-> c.num_trials,
                bt_sequence |-> <<<<>>, <<>>>>,
                position |-> 0, audio |-> 0, both |-> 0]

\* the zero fill and the warm-up draws; the warm-up assignment faults
\* (IndexError) when n_back exceeds num_trials
JaeggiWarmUp ==
    /\ call.pc = "start"
    /\ UNCHANGED session_vars
    /\ \E v \in {1, 8} :
        call' = [call EXCEPT
                    !.bt_sequence = jaeggi_warm_up(call.n_back, call.num_trials, v, 9 - v),
                    !.pc = IF call.n_back > call.num_trials THEN "fault"
                           ELSE "position"]

\* one iteration of the outer loop up to the test 'if position != 6: continue'
JaeggiPositionPass ==
    /\ call.pc = "position"
    /\ UNCHANGED session_vars
    /\ \E q \in jaeggi_passes(call.bt_sequence[1], call.n_back, call.num_trials) :
        \E position \in {count_nback_matches(q, call.n_back, call.num_trials)} :
            call' = [call EXCEPT !.bt_sequence[1] = q, !.position = position,
                                 !.pc = IF position # 6 THEN "position" ELSE "audio"]

\* one iteration of the inner loop up to the test 'if audio == 6: break'
JaeggiAudioPass ==
    /\ call.pc = "audio"
    /\ UNCHANGED session_vars
    /\ \E q \in jaeggi_passes(call.bt_sequence[2], call.n_back, call.num_trials) :
        \E audio \in {count_nback_matches(q, call.n_back, call.num_trials)} :
            call' = [call EXCEPT !.bt_sequence[2] = q, !.audio = audio,
                                 !.pc = IF audio = 6 THEN "both" ELSE "audio"]

\* the count of the simultaneous matches and the test 'if both == 2: break'
JaeggiBothCheck ==
    /\ call.pc = "both"
    /\ UNCHANGED session_vars
    /\ \E both \in {count_both_matches(call.bt_sequence, call.n_back, call.num_trials)} :
        call' = [call EXCEPT !.both = both,
                             !.pc = IF both = 2 THEN "returned" ELSE "position"]

JaeggiNext ==
    \/ JaeggiWarmUp
    \/ JaeggiPositionPass
    \/ JaeggiAudioPass
    \/ JaeggiBothCheck

JaeggiSpec == JaeggiInit /\ [][JaeggiNext]_vars

\* the function keeps executing until it returns or raises
JaeggiFairSpec == JaeggiSpec /\ WF_vars(JaeggiNext)

\* the trials after the warm-up on which seq repeats its entry n_back earlier
NbackMatchTrials(seq, n_back) ==
    {x \in (n_back + 1)..Len(seq) : seq[x] = seq[x - n_back]}

\* C23: whenever compute_jaeggi_sequence returns, both sequences have
\* num_trials entries in 1..8, each has exactly 6 n-back matches after the
\* warm-up, and exactly 2 trials are a match in both.
C23_FixedCountSequenceCounts ==
    call.pc = "returned" =>
        /\ \A c \in 1..2 :
            /\ Len(call.bt_sequence[c]) = call.num_trials
            /\ \A x \in 1..call.num_trials : call.bt_sequence[c][x] \in 1..8
            /\ Cardinality(NbackMatchTrials(call.bt_sequence[c], call.n_back)) = 6
        /\ Cardinality(NbackMatchTrials(call.bt_sequence[1], call.n_back)
                        \cap NbackMatchTrials(call.bt_sequence[2], call.n_back)) = 2

\* a 2-back sequence of 13 trials is returned
C23_Witness ==
    /\ call.pc = "returned"
    /\ call.n_back = 2
    /\ call.num_trials = 13
    /\ call.both = 2

\* C24: compute_jaeggi_sequence always terminates: every call, also one
\* with fewer than six trials after the warm-up, returns a sequence or
\* stops with a failure.
C24_FixedCountTerminates ==
    <>(call.pc \in {"returned", "failed", "fault"})

(***************************************************************************)
(* A session in Jaeggi mode (cfg.JAEGGI_MODE), whose start() precomputes   *)
(* mode.bt_sequence.                                                       *)
(***************************************************************************)
JaeggiSessionInit == Fresh(JaeggiSetup)

JaeggiSessionNext == Start \/ Update \/ End \/ Pause \/ Resume

JaeggiSessionSpec == JaeggiSessionInit /\ [][JaeggiSessionNext]_vars

\* C25: in a session in Jaeggi mode the position and the audio stimulus
\* generated for trial t are the t-th entries of the position and the audio
\* sequence that start() precomputed.
C25_StimuliFollowFixedCountSequence ==
    cfg.JAEGGI_MODE =>
        \A t \in 1..Len(shown) :
            /\ shown[t]["position1"] = bt_sequence[1][t]
            /\ shown[t]["audio"] = bt_sequence[2][t]

(***************************************************************************)
(* Direct calls of generate_arithmetic_operand.                            *)
(***************************************************************************)
\* the operand ranges: cfg.ARITHMETIC_MAX_NUMBER without and with negative
\* operands, and a range without a divisor of 7
OperandRanges ==
    {[min_number |-> 0, max_number |-> Config.ARITHMETIC_MAX_NUMBER],
     [min_number |-> 0 - Config.ARITHMETIC_MAX_NUMBER,
      max_number |-> Config.ARITHMETIC_MAX_NUMBER],
     [min_number |-> 2, max_number |-> 3]}

\* the operand recorded n_back trials earlier, None when there is none
PreviousResults ==
    {None, <<0>>, <<7>>, <<10>>, <<13>>, <<0 - 6>>, <<0 - 9>>}

\* the configured lists of acceptable decimals: none, 0.5, and 0.25 with 0.1
AcceptableDecimals ==
    {{}, {[num |-> 1, den |-> 2]}, {[num |-> 1, den |-> 4], [num |-> 1, den |-> 10]}}

OperandInit ==
    /\ FreshSession(CHOOSE su \in Setups : su.mode.session_number = 0)
    /\ \E r \in OperandRanges, previous_result \in PreviousResults :
        call = [fn |-> "none", min_number |-> r.min_number,
                max_number |-> r.max_number, previous_result |-> previous_result]

\* one call; pick is the outcome of random.choice / random.randint
GenerateArithmeticOperand ==
    /\ Uncalled
    /\ UNCHANGED session_vars
    /\ \E operation \in {"add", "subtract", "multiply", "divide"},
          acceptable_decimals \in AcceptableDecimals,
          pick \in 0..(2 * Config.ARITHMETIC_MAX_NUMBER - 1) :
        call' = [fn |-> "generate_arithmetic_operand",
                 args |-> [operation |-> operation, min_number |-> call.min_number,
                           max_number |-> call.max_number,
                           acceptable_decimals |-> acceptable_decimals,
                           previous_result |-> call.previous_result],
                 ret |-> generate_arithmetic_operand(operation, call.min_number,
                            call.max_number, acceptable_decimals,
                            call.previous_result, pick)]

OperandNext == GenerateArithmeticOperand

OperandSpec == OperandInit /\ [][OperandNext]_vars

\* previous / x is an integer, or its fractional part is one of the decimals
AcceptableQuotient(previous, x, decimals) ==
    /\ x # 0
    /\ \/ \E q \in (0 - Abs(previous))..Abs(previous) : previous = q * x
       \/ \E d \in decimals, q \in 0..Abs(previous) :
            Abs(previous) * d.den = (q * d.den + d.num) * Abs(x)

\* C26: generate_arithmetic_operand returns a nonzero operand of
\* min_number..max_number; for 'divide' with a previous result, whenever
\* the range holds an operand x for which previous_result / x is an integer
\* or has an acceptable fractional part, the returned operand is such an x
\* (the unconstrained draw is left to the cases of no previous result and
\* of no such operand).
C26_DivisionOperandAcceptable ==
    call.fn = "generate_arithmetic_operand" =>
        /\ call.ret \in call.args.min_number..call.args.max_number
        /\ call.ret # 0
        /\ (/\ call.args.operation = "divide"
            /\ call.args.previous_result # None
            /\ \E x \in call.args.min_number..call.args.max_number :
                    AcceptableQuotient(call.args.previous_result[1], x,
                                       call.args.acceptable_decimals))
           => AcceptableQuotient(call.args.previous_result[1], call.ret,
                                 call.args.acceptable_decimals)

\* 10 divided by the returned operand 4 is 2.5, 0.5 being acceptable
C26_Witness ==
    /\ call.fn = "generate_arithmetic_operand"
    /\ call.args.operation = "divide"
    /\ call.args.previous_result = <<10>>
    /\ call.args.acceptable_decimals = {[num |-> 1, den |-> 2]}
    /\ call.ret = 4

(***************************************************************************)
(* Timing of the session: lead-in, self-paced hold, feedback and hide.     *)
(***************************************************************************)
\* the step is an update() that passes the early return
Advances == op' = "update" /\ started /\ ~paused

\* the callback e is invoked by the step
Emits(e) == \E i \in 1..Len(events') : events'[i] = e

\* C27: outside image mode start() sets the tick to -9 - 5*(multi - 1) and
\* the trial counter to 0, and the first trial begins (trial counter 1,
\* first stimulus generated) on exactly the (10 + 5*(multi - 1))-th update
\* made while the session is running and not paused, at a fixed pace and
\* self-paced; no stimulus is generated before.
C27_FirstTrialAfterLeadIn ==
    [][cfg.MULTI_MODE # "image" =>
        /\ op' = "start" =>
            /\ tick' = (0 - 9) - 5 * (mode.multi - 1)
            /\ trial_number' = 0
            /\ shown' = <<>>
        /\ (started /\ trial_number = 0) =>
            \* tick is the lead-in value plus the number of updates made so far
            \E nth \in {tick + 10 + 5 * (mode.multi - 1)} :
                /\ nth \in 1..(10 + 5 * (mode.multi - 1))
                /\ shown = <<>>
                /\ IF Advances
                   THEN IF nth = 10 + 5 * (mode.multi - 1)
                        THEN /\ trial_number' = 1
                             /\ Len(shown') = 1
                             /\ Emits("stimulus_generated")
                        ELSE /\ tick' = tick + 1
                             /\ trial_number' = 0
                             /\ shown' = <<>>
                   ELSE /\ trial_number' = 0
                        /\ shown' = <<>>
                        /\ started' => tick' = tick]_vars

\* the first trial of a session showing two positions in color mode
C27_Witness ==
    /\ op = "update"
    /\ cfg.MULTI_MODE = "color"
    /\ mode.multi = 2
    /\ trial_number = 1
    /\ Len(shown) = 1
    /\ tick = 1

\* C28: a self-paced update leaves the tick unchanged exactly when
\* 5 < tick < ticks_per_trial - 6 and increments it otherwise; an update
\* that is not self-paced always increments it, before the tick
\* transitions are evaluated.
C28_SelfPacedHoldWindow ==
    [][Advances =>
        \E t1 \in {IF mode.selfpaced /\ 5 < tick /\ tick < mode.ticks_per_trial - 6
                    THEN tick ELSE tick + 1} :
            tick' = IF t1 = mode.ticks_per_trial - 2 \/ t1 = mode.ticks_per_trial
                    THEN 0 ELSE t1]_vars

C30_HideBeforeNextTrial ==
    [][(/\ ~mode.selfpaced
        /\ mode.ticks_per_trial >= 3
        /\ shown # <<>>
        /\ Emits("stimulus_generated"))
       => stimulus_hidden]_vars

(***************************************************************************)
(* The snapshot of a trial and the history.                                *)
(***************************************************************************)
\* C31: the update that starts trial i+1 (or finds the session complete)
\* appends trial i's stimulus map and the input flags and reaction times as
\* they stand, i.e. as registered since trial i started: the flags are all
\* false with reaction time 0 right after a trial started, a registration
\* sets one flag, and no other operation of a running session writes them.
C31_SnapshotFoldedAtTrialStart ==
    [][/\ (trial_number >= 1 /\ trial_number' = trial_number + 1) =>
            /\ \A k \in StimKeys \ {"number"} :
                    session'[k] = Append(session[k], current_stim[k])
            /\ session'["numbers"] = Append(session["numbers"], current_stim["number"])
            /\ \A k \in InputKeys :
                    /\ session'[InputName(k)] = Append(session[InputName(k)], inputs[k])
                    /\ session'[RtName(k)] = Append(session[RtName(k)], input_rts[k])
       /\ Emits("stimulus_generated") =>
            /\ inputs' = [k \in InputKeys |-> FALSE]
            /\ input_rts' = [k \in InputKeys |-> 0]
            /\ current_stim' = shown'[Len(shown')]
       /\ (op' = "register_input" /\ started) =>
            \E m \in InputKeys :
                /\ inputs' = [inputs EXCEPT ![m] = TRUE]
                /\ \A k \in InputKeys \ {m} : input_rts'[k] = input_rts[k]
       /\ (started' /\ trial_number' = trial_number /\ op' # "register_input") =>
            /\ inputs' = inputs
            /\ input_rts' = input_rts
            /\ current_stim' = current_stim]_vars

\* the second trial has started; the sound key was pressed during the
\* first one, whose snapshot is in the history
C31_Witness ==
    /\ op = "update"
    /\ trial_number = 2
    /\ session["audio_input"] = <<TRUE>>
    /\ session["position1_input"] = <<FALSE>>
    /\ session["audio"] = <<shown[1]["audio"]>>
    /\ Len(shown) = 2
    /\ inputs = [k \in InputKeys |-> FALSE]

\* no other modality and no other step of apply_nback_matching writes the
\* stimulus of the j-th modality: the channel has its own key and is not a
\* position or vis channel of a multi-stimulus mode
OwnStimulus(j) ==
    LET mods == call.args.modalities
    IN  /\ mods[j] # "arithmetic"
        /\ \A j2 \in (1..Len(mods)) \ {j} : current_key(mods[j2]) # current_key(mods[j])
        /\ call.args.multi_mode = 1 \/ mods[j] \notin PositionKeys \cup VisKeys

\* the r2 draw of the j-th modality is below the chance of interference
InterferenceDrawn(j) ==
    IF call.args.multi_mode > 1
    THEN 3 * call.args.rng.r2[j] < 2 * Config.CHANCE_OF_INTERFERENCE
    ELSE call.args.rng.r2[j] < Config.CHANCE_OF_INTERFERENCE

\* C32: for a channel without guaranteed match, a value forced by the
\* interference branch is the history value at an offset n_back + i, i in
\* {-1, 1, n_back}, that lies inside the recorded history, and it differs
\* from the history value n_back trials back; with n_back <= 1 or no
\* interference draw the channel keeps its base value.
C32_InterferenceIsNoMatch ==
    (/\ call.fn = "apply_nback_matching"
     /\ call.args.trial_number > call.args.n_back)
    => \A j \in 1..Len(call.args.modalities) :
        (/\ OwnStimulus(j)
         /\ call.args.rng.r1[j] >= Config.CHANCE_OF_GUARANTEED_MATCH)
        => LET key == current_key(call.args.modalities[j])
               list == call.args.session_history[back_data_key(call.args.modalities[j])]
               true_match == At(list, call.args.trial_number - call.args.n_back - 1)
           IN  /\ \/ call.ret[key] = call.args.current_stim[key]
                  \/ \E i \in {0 - 1, 1, call.args.n_back} :
                        /\ call.args.trial_number - (call.args.n_back + i) - 1
                                \in 0..(Len(list) - 1)
                        /\ call.ret[key] =
                                At(list, call.args.trial_number - (call.args.n_back + i) - 1)
                        /\ call.ret[key] # true_match
               /\ (call.args.n_back <= 1 \/ ~InterferenceDrawn(j))
                    => call.ret[key] = call.args.current_stim[key]

\* on trial 4 of a 2-back the sound is forced to the sound of trial 1, which
\* is not the sound of trial 2
C32_Witness ==
    /\ call.fn = "apply_nback_matching"
    /\ call.args.modalities = <<"position1", "audio">>
    /\ call.args.multi_mode = 1
    /\ call.args.n_back = 2
    /\ call.args.trial_number = 4
    /\ call.args.rng.r1[2] = 999
    /\ call.args.rng.r2[2] = 0
    /\ call.args.session_history["audio"] = <<4, 3, 2>>
    /\ call.args.current_stim["audio"] = 2
    /\ call.ret["audio"] = 4

(***************************************************************************)
(* Direct calls of apply_static_defaults.                                  *)
(***************************************************************************)
\* the modality lists of the calls
DefaultsModalities ==
    {<<"audio">>, <<"position1", "audio">>, <<"position1", "color">>,
     <<"color", "audio">>, <<"position1", "image">>, <<"image", "audio">>,
     <<"arithmetic">>, <<"position1", "arithmetic">>,
     <<"visvis", "visaudio", "audiovis", "audio">>, <<"visvis">>,
     <<"visaudio", "audio">>, <<"audiovis", "audio">>,
     <<"position1", "position2", "audio">>, <<"position2", "audio">>,
     <<"position1", "vis1", "position2", "vis2">>, <<"audio", "audio2">>}

DefaultsInit ==
    /\ FreshSession(CHOOSE su \in Setups : su.mode.session_number = 0)
    /\ \E p \in PositionRows, default_color \in {1, 2} :
        call = [fn |-> "none", stimuli |-> stim_of_row(p),
                default_color |-> default_color]

ApplyStaticDefaults ==
    /\ Uncalled
    /\ UNCHANGED session_vars
    /\ \E modalities \in DefaultsModalities :
        call' = [fn |-> "apply_static_defaults",
                 args |-> [stimuli |-> call.stimuli, modalities |-> modalities,
                           default_color |-> call.default_color],
                 ret |-> apply_static_defaults(call.stimuli, modalities,
                                               call.default_color)]

DefaultsNext == ApplyStaticDefaults

DefaultsSpec == DefaultsInit /\ [][DefaultsNext]_vars

\* the modalities of the call
ActiveModalities ==
    {call.args.modalities[j] : j \in 1..Len(call.args.modalities)}

\* C33: apply_static_defaults keeps vis when a combination channel (visvis,
\* visaudio, audiovis), arithmetic or image is active and sets it to 0
\* otherwise; it sets color to the default iff color is inactive and
\* position1 to 0 iff no position channel is active; audio and audio2 are
\* never altered.
C33_StaticDefaults ==
    call.fn = "apply_static_defaults" =>
        /\ call.ret["vis"] =
                IF ActiveModalities
                     \cap {"visvis", "visaudio", "audiovis", "arithmetic", "image"} # {}
                THEN call.args.stimuli["vis"] ELSE 0
        /\ call.ret["color"] =
                IF "color" \in ActiveModalities THEN call.args.stimuli["color"]
                ELSE call.args.default_color
        /\ call.ret["position1"] =
                IF ActiveModalities \cap PositionKeys # {}
                THEN call.args.stimuli["position1"] ELSE 0
        /\ call.ret["audio"] = call.args.stimuli["audio"]
        /\ call.ret["audio2"] = call.args.stimuli["audio2"]

(***************************************************************************)
(* generate_arithmetic_operand step by step: the division branch, then the *)
(* loop that draws again while the number is 0.                            *)
(***************************************************************************)
\* the ranges of OperandRanges, the range {0} of ARITHMETIC_MAX_NUMBER = 0
\* without negatives, and a range around 0
OperandLoopRanges ==
    OperandRanges \cup {[min_number |-> 0, max_number |-> 0],
                        [min_number |-> 0 - 1, max_number |-> 1]}

OperandLoopInit ==
    /\ FreshSession(CHOOSE su \in Setups : su.mode.session_number = 0)
    /\ \E r \in OperandLoopRanges, previous_result \in PreviousResults,
          operation \in {"add", "subtract", "multiply", "divide"} :
        call = [fn |-> "generate_arithmetic_operand", pc |-> "start",
                operation |-> operation, min_number |-> r.min_number,
                max_number |-> r.max_number,
                previous_result |-> previous_result, number |-> 0, ret |-> 0]

\* lines 140-158: random.choice(possibilities) when the division branch
\* finds operands, the first random.randint otherwise
OperandEnter ==
    /\ call.pc = "start"
    /\ UNCHANGED session_vars
    /\ \E acceptable_decimals \in AcceptableDecimals :
        \E possibilities \in
              {IF call.operation = "divide" /\ call.previous_result # None
               THEN division_possibilities(call.min_number, call.max_number,
                        acceptable_decimals, call.previous_result[1])
               ELSE {}} :
            IF possibilities # {}
            THEN \E x \in possibilities :
                    call' = [call EXCEPT !.pc = "returned", !.ret = x]
            ELSE \E number \in call.min_number..call.max_number :
                    call' = [call EXCEPT !.pc = "loop", !.number = number]

\* lines 159-160: while number == 0, draw again
OperandRedraw ==
    /\ call.pc = "loop"
    /\ call.number = 0
    /\ UNCHANGED session_vars
    /\ \E number \in call.min_number..call.max_number :
        call' = [call EXCEPT !.number = number]

\* line 161
OperandReturn ==
    /\ call.pc = "loop"
    /\ call.number # 0
    /\ UNCHANGED session_vars
    /\ call' = [call EXCEPT !.pc = "returned", !.ret = call.number]

OperandLoopNext == OperandEnter \/ OperandRedraw \/ OperandReturn

OperandLoopSpec == OperandLoopInit /\ [][OperandLoopNext]_vars

\* the call keeps running, and a value random.randint can draw is not
\* avoided for ever
OperandLoopFairSpec ==
    /\ OperandLoopSpec
    /\ WF_vars(OperandLoopNext)
    /\ SF_vars(OperandRedraw /\ call'.number # 0)

\* C34: generate_arithmetic_operand terminates and returns a nonzero
\* integer of min_number..max_number, for every operation and every range
\* with min_number <= max_number, the range {0} included.
C34_OperandTerminates ==
    <>(/\ call.pc = "returned"
       /\ call.ret # 0
       /\ call.ret \in call.min_number..call.max_number)

(***************************************************************************)
(* Sessions at N-back level 2 in standard, crab and variable-N mode.       *)
(***************************************************************************)
VariableSessionInit == \E su \in VariableSetups : Fresh(su)

VariableSessionNext == Start \/ Update \/ End \/ Pause \/ Resume

VariableSessionSpec == VariableSessionInit /\ [][VariableSessionNext]_vars

\* an advance call that runs _start_new_trial up to _generate_stimulus
GeneratesTrial ==
    /\ Advances
    /\ trial_number' = trial_number + 1
    /\ ~session_complete(trial_number')

\* the index _get_real_back reads mode.variable_list at for trial tn
variable_list_index(tn) == tn - mode.back - 1

\* C35: in variable-N mode the level list has num_trials_total - back
\* entries, every lookup of it uses an index of
\* 0..num_trials_total - back - 1, warm-up trials included, and the
\* effective N of a trial is in 1..back.
C35_VariableListLookups ==
    [][(cfg.VARIABLE_NBACK /\ mode.crab # 1) =>
        /\ started' => Len(variable_list') = mode.num_trials_total - mode.back
        /\ GeneratesTrial =>
            /\ variable_list_index(trial_number')
                    \in 0..(mode.num_trials_total - mode.back - 1)
            /\ ~get_real_back(trial_number').fault
            /\ get_real_back(trial_number').value \in 1..mode.back]_vars

(***************************************************************************)
(* GameController (application/game_controller.py): the operations of the  *)
(* host on the controller, which creates one GameSession per               *)
(* start_new_session and keeps it in self.session until end_session.       *)
(***************************************************************************)
\* sessions started and session-end events the runs are followed up to
MaxSessions == 2

MaxSessionEnds == 2

\* the N-back levels passed to change_nback_level
ControllerLevels == 1..2

\* the modalities of the modes passed to change_mode
ControllerModalities == {<<"position1", "audio">>, <<"position1">>}

\* a dual 1-back of 1 + 1 * back ** 1 trials
ControllerSetup ==
    [mode |-> ModeOf(3, 1, FALSE, <<"position1", "audio">>, 2, 13)
              @@ [num_trials |-> 1, num_trials_factor |-> 1, num_trials_exponent |-> 1],
     cfg |-> Config, keys |-> {}]

ControllerInit == Fresh(ControllerSetup)

\* GameController.session is not None: start() has been entered on the
\* session object the controller holds
controller_session == session_number_before_start # None

\* 'if self.session and self.session.started: self.end_session(cancelled=True)':
\* what end(True) does to the running session, nothing otherwise
cancel_running ==
    IF controller_session /\ started
    THEN [ended |-> TRUE, session_number |-> end(TRUE, session, trial_number).session_number,
          payload |-> end(TRUE, session, trial_number).payload]
    ELSE [ended |-> FALSE, session_number |-> session_number, payload |-> <<>>]

\* GameController.start_new_session
ControllerStartNewSession ==
    \E c \in {cancel_running} :
        /\ c.session_number - mode.session_number < MaxSessions
        /\ Len(session_end_log) < MaxSessionEnds
        /\ op' = "start"
        /\ session_end_log' = session_end_log \o c.payload
        /\ inputs' = IF c.ended THEN reset_inputs ELSE inputs
        /\ input_rts' = IF c.ended THEN reset_input_rts ELSE input_rts
        /\ session_number_before_start' = <<c.session_number>>
        /\ tick' = lead_in_tick
        /\ session_number' = c.session_number + 1
        /\ trial_number' = 0
        /\ started' = TRUE
        /\ paused' = FALSE
        /\ IF cfg.VARIABLE_NBACK
           THEN variable_list' \in variable_nback_sequences(mode.back, mode.num_trials_total)
           ELSE UNCHANGED variable_list
        /\ IF cfg.JAEGGI_MODE
           THEN bt_sequence' \in compute_jaeggi_sequence(mode.back, mode.num_trials_total)
           ELSE UNCHANGED bt_sequence
        /\ session' = initialize_session
        /\ events' = (IF c.ended THEN <<"session_end">> ELSE <<>>) \o <<"trial_start">>
        /\ stimulus_hidden' = FALSE
        /\ UNCHANGED <<call, mode, cfg, history, full_history, sessions_today,
                       show_missed, trial_starttime, current_stim, current_operation,
                       score_calls, shown>>

\* GameController.update
ControllerUpdate ==
    IF controller_session THEN Update
    ELSE /\ op' = "update"
         /\ events' = <<>>
         /\ UNCHANGED <<call, mode, cfg, history, full_history, bt_sequence,
                        stimulus_hidden, started, paused, tick, trial_number,
                        session_number, sessions_today, show_missed, trial_starttime,
                        current_stim, current_operation, inputs, input_rts, session,
                        variable_list, session_end_log, score_calls, shown,
                        session_number_before_start>>

\* GameController.end_session(cancelled): GameSession.end on the session the
\* controller holds, whatever its state, then self.session = None
ControllerEndSession ==
    \E cancelled \in BOOLEAN :
        /\ op' = "end"
        /\ Len(session_end_log) < MaxSessionEnds
        /\ IF controller_session THEN
                \E e \in {end(cancelled, session, trial_number)} :
                    /\ session_number' = e.session_number
                    /\ sessions_today' = e.sessions_today
                    /\ started' = FALSE
                    /\ paused' = FALSE
                    /\ inputs' = reset_inputs
                    /\ input_rts' = reset_input_rts
                    /\ score_calls' = score_calls \o e.score_calls
                    /\ session_end_log' = session_end_log \o e.payload
                    /\ events' = IF e.payload = <<>> THEN <<>> ELSE <<"session_end">>
                    /\ session_number_before_start' = None
           ELSE /\ events' = <<>>
                /\ UNCHANGED <<session_number, sessions_today, started, paused,
                               inputs, input_rts, score_calls, session_end_log,
                               session_number_before_start>>
        /\ UNCHANGED <<call, mode, cfg, history, full_history, bt_sequence,
                       stimulus_hidden, tick, trial_number, show_missed,
                       trial_starttime, current_stim, current_operation, session,
                       variable_list, shown>>

\* what change_mode and change_nback_level do before they write the mode:
\* the running session is cancelled and dropped
ControllerCancelRunning ==
    \E c \in {cancel_running} :
        /\ session_number' = c.session_number
        /\ session_end_log' = session_end_log \o c.payload
        /\ events' = IF c.ended THEN <<"session_end">> ELSE <<>>
        /\ started' = IF c.ended THEN FALSE ELSE started
        /\ paused' = IF c.ended THEN FALSE ELSE paused
        /\ inputs' = IF c.ended THEN reset_inputs ELSE inputs
        /\ input_rts' = IF c.ended THEN reset_input_rts ELSE input_rts
        /\ session_number_before_start' =
                IF c.ended THEN None ELSE session_number_before_start
        /\ UNCHANGED <<call, cfg, history, full_history, bt_sequence,
                       stimulus_hidden, tick, trial_number, sessions_today,
                       show_missed, trial_starttime, current_stim, current_operation,
                       session, variable_list, score_calls, shown>>

\* GameController.change_mode(new_mode), the Mode object taking the
\* modalities of the new mode
ControllerChangeMode ==
    \E modalities \in ControllerModalities :
        /\ op' = "change_mode"
        /\ Len(session_end_log) < MaxSessionEnds
        /\ ControllerCancelRunning
        /\ mode' = [mode EXCEPT !.modalities = modalities]

\* GameController.change_nback_level(new_level)
ControllerChangeNbackLevel ==
    \E new_level \in ControllerLevels :
        /\ op' = "change_nback_level"
        /\ Len(session_end_log) < MaxSessionEnds
        /\ ControllerCancelRunning
        /\ mode' = [mode EXCEPT
                        !.back = new_level,
                        !.num_trials_total =
                            mode.num_trials
                            + mode.num_trials_factor * new_level ^ mode.num_trials_exponent]

ControllerNext ==
    \/ ControllerStartNewSession
    \/ ControllerUpdate
    \/ ControllerEndSession
    \/ ControllerChangeMode
    \/ ControllerChangeNbackLevel

ControllerSpec == ControllerInit /\ [][ControllerNext]_vars

\* C36: under any sequence of controller operations a session is ended
\* only while it is running: a session-end event is emitted, a session is
\* persisted and the session counters are adjusted for a session only once,
\* never again after it ended naturally.
C36_SessionEndedOnce ==
    [][(\/ Len(session_end_log') > Len(session_end_log)
        \/ session_number' < session_number
        \/ sessions_today' # sessions_today) => started]_vars

(***************************************************************************)
(* Sessions that are not ended by the host: the non-self-paced sessions of *)
(* at least 3 ticks per trial, advanced by the game loop.                  *)
(***************************************************************************)
\* the one-trial sessions among them, at 3, 8, 10 and 12 ticks per trial
LiveSetups ==
    {su \in Setups \cup {PacedSetup, ShortSetup} :
        /\ ~su.mode.selfpaced
        /\ su.mode.ticks_per_trial >= 3
        /\ su.mode.num_trials_total = 1}

LiveInit == \E su \in LiveSetups : Fresh(su)

LiveNext == Start \/ Update \/ RegisterInput \/ Pause \/ Resume

LiveSpec == LiveInit /\ [][LiveNext]_vars

\* a paused session is resumed, and the game loop keeps calling update():
\* a session that is unpaused again and again is advanced while unpaused
LiveFairSpec ==
    /\ LiveSpec
    /\ WF_vars(Resume /\ paused)
    /\ SF_vars(Update /\ started /\ ~paused)

\* on_session_end was invoked with cancelled = False and the scores
EndedWithScores ==
    \E i \in 1..Len(session_end_log) :
        /\ ~session_end_log[i].cancelled
        /\ "overall" \in DOMAIN session_end_log[i].scores

\* C37: a started non-self-paced session of at least 3 ticks per trial
\* that keeps being advanced while it is not paused eventually ends with a
\* non-cancelled session-end event that carries the scores.
C37_SessionEventuallyEnds == started ~> (~started /\ EndedWithScores)

\* the session of PacedSetup has ended after its trial
C37_Witness ==
    /\ mode.ticks_per_trial = 12
    /\ ~mode.selfpaced
    /\ ~started
    /\ EndedWithScores
    /\ trial_number = mode.num_trials_total + 1

\* the n_back GameSession.end passes to calculate_session_score
scoring_back == mode.back

\* C38: on every trial the matching is applied to, the N-back distance the
\* ScoreEngine uses equals the effective distance the generator used, in
\* standard, crab and variable-N mode.
C38_ScoringDistanceIsGeneratorDistance ==
    [][(/\ GeneratesTrial
        /\ trial_number' > mode.back
        /\ ~get_real_back(trial_number').fault)
       => get_real_back(trial_number').value = scoring_back]_vars

(***************************************************************************)
(* Level progression (models/stats.py): submit_session records a finished  *)
(* session and moves the N-back level, retrieve_progress derives the level *)
(* from the recorded sessions.                                             *)
(***************************************************************************)
\* number of sessions submitted in a run
MaxSubmitted == 4

\* the overall percentages of the submitted sessions
Percents == {30, 60, 90}

\* the values default_nback_mode_func returns
DefaultLevels == 1..2

\* the Mode and cfg objects: 20 + back ** 2 trials, advance at 80, fall back
\* below 50 on the third such session
ProgressSetup(manual, jaeggi_mode, reset_level, back) ==
    [mode |-> [ModeOf(3, 1, FALSE, <<"position1", "audio">>, 20 + back ^ 2, 16)
                    EXCEPT !.back = back]
              @@ [mode |-> 2, manual |-> manual, progress |-> 0, num_trials |-> 20,
                  num_trials_factor |-> 1, num_trials_exponent |-> 2],
     cfg |-> [Config EXCEPT !.JAEGGI_MODE = jaeggi_mode]
             @@ [RESET_LEVEL |-> reset_level, THRESHOLD_FALLBACK_SESSIONS |-> 3,
                 THRESHOLD_ADVANCE |-> 80, THRESHOLD_FALLBACK |-> 50],
     keys |-> {}]

ProgressInit ==
    \E manual \in BOOLEAN, jaeggi_mode \in BOOLEAN, reset_level \in BOOLEAN,
       back \in DefaultLevels :
        Fresh(ProgressSetup(manual, jaeggi_mode, reset_level, back))

\* num_trials + num_trials_factor * back ** num_trials_exponent
trials_total(m, back) ==
    m.num_trials + m.num_trials_factor * back ^ m.num_trials_exponent

\* a fallback test that does not look at the level
falls_back_at_any_level(m, percent) == percent < cfg.THRESHOLD_FALLBACK

\* 'elif mode.back > 1 and percent < get_threshold_fallback_func()'
falls_back(m, percent) == m.back > 1 /\ percent < cfg.THRESHOLD_FALLBACK

\* the Mode fields after the level advancement / fallback of submit_session,
\* the threshold functions being given
submit_session(m, percent) ==
    IF m.manual THEN m
    ELSE IF percent >= cfg.THRESHOLD_ADVANCE THEN
        [m EXCEPT !.back = m.back + 1,
                  !.num_trials_total = trials_total(m, m.back + 1),
                  !.progress = 0]
    ELSE IF falls_back(m, percent) THEN
        IF cfg.JAEGGI_MODE THEN [m EXCEPT !.back = m.back - 1]
        ELSE IF m.progress = cfg.THRESHOLD_FALLBACK_SESSIONS - 1 THEN
            [m EXCEPT !.back = m.back - 1,
                      !.num_trials_total = trials_total(m, m.back - 1),
                      !.progress = 0]
        ELSE [m EXCEPT !.progress = m.progress + 1]
    ELSE m

\* Stats.submit_session(percent, ...): the session is appended to
\* stats.history, then the level is moved
SubmitSession ==
    \E percent \in Percents :
        /\ Len(history) < MaxSubmitted
        /\ op' = "submit_session"
        /\ events' = <<>>
        /\ history' = Append(history,
                [session_number |-> session_number, mode |-> mode.mode,
                 n_back |-> mode.back, percent |-> percent, manual |-> mode.manual])
        /\ mode' = submit_session(mode, percent)
        /\ UNCHANGED <<call, cfg, full_history, bt_sequence, stimulus_hidden,
                       started, paused, tick, trial_number, session_number,
                       sessions_today, show_missed, trial_starttime, current_stim,
                       current_operation, inputs, input_rts, session, variable_list,
                       session_end_log, score_calls, shown,
                       session_number_before_start>>

\* the sessions of the mode in a history list
sessions_of_mode(hist, m) ==
    SelectSeq(hist, LAMBDA s : s.mode = m.mode)

\* the loop 'for s in sessions' of retrieve_progress from its i-th session on
RECURSIVE count_progress(_, _, _, _)
count_progress(sessions, back, i, progress) ==
    IF i > Len(sessions) THEN progress
    ELSE count_progress(sessions, back, i + 1,
            IF sessions[i].n_back = back /\ sessions[i].percent < cfg.THRESHOLD_FALLBACK
            THEN progress + 1
            ELSE IF sessions[i].n_back # back THEN 0
            ELSE progress)

\* the Mode fields after retrieve_progress over the sessions of the mode
\* (mode.session_number apart), enforce_standard_mode leaving them alone
retrieve_progress(m, sessions, default_nback) ==
    IF sessions # <<>> THEN
        LET ls == sessions[Len(sessions)]
            back == IF ls.percent >= cfg.THRESHOLD_ADVANCE THEN ls.n_back + 1
                    ELSE ls.n_back
            progress == count_progress(sessions, back, 1, 0)
            fallen == progress >= cfg.THRESHOLD_FALLBACK_SESSIONS
            back2 == IF fallen THEN (IF back - 1 < 1 THEN 1 ELSE back - 1) ELSE back
        IN  [m EXCEPT !.back = back2,
                      !.progress = IF fallen THEN 0 ELSE progress,
                      !.num_trials_total = trials_total(m, back2)]
    ELSE [m EXCEPT !.back = default_nback,
                   !.num_trials_total = trials_total(m, default_nback)]

\* Stats.retrieve_progress(cfg, mode, ...)
RetrieveProgress ==
    \E default_nback \in DefaultLevels :
      \E sessions \in {sessions_of_mode(IF cfg.RESET_LEVEL THEN history
                                         ELSE full_history, mode)} :
        /\ op' = "retrieve_progress"
        /\ events' = <<>>
        /\ mode' = retrieve_progress(mode, sessions, default_nback)
        /\ session_number' = IF sessions # <<>>
                             THEN sessions[Len(sessions)].session_number
                             ELSE session_number
        /\ UNCHANGED <<call, cfg, history, full_history, bt_sequence,
                       stimulus_hidden, started, paused, tick, trial_number,
                       sessions_today, show_missed, trial_starttime, current_stim,
                       current_operation, inputs, input_rts, session, variable_list,
                       session_end_log, score_calls, shown,
                       session_number_before_start>>

ProgressNext == SubmitSession \/ RetrieveProgress

ProgressSpec == ProgressInit /\ [][ProgressNext]_vars

\* num_trials_total == num_trials + num_trials_factor * back ** num_trials_exponent
TrialTotalConsistent(m) == m.num_trials_total = trials_total(m, m.back)

\* C39: a submit_session call, manual or automatic, in the fixed-count
\* protocol or not, keeps the trial total consistent with the N-back level
\* whenever it was consistent before the call.
C39_TrialTotalConsistent ==
    [][(op' = "submit_session" /\ TrialTotalConsistent(mode))
        => TrialTotalConsistent(mode')]_vars

\* the percentage of the session submitted last
SubmittedPercent == history'[Len(history')].percent

\* C40: no submit_session or retrieve_progress call takes the level below
\* 1 or the fallback counter out of 0..THRESHOLD_FALLBACK_SESSIONS - 1; an
\* automatic session at or above the advance threshold raises the level by
\* one and zeroes the counter; the level falls only by one, only on a
\* below-fallback session at a level above 1, and exactly when the counter
\* stands at THRESHOLD_FALLBACK_SESSIONS - 1 (on every such session in the
\* fixed-count protocol).
C40_LevelProgression ==
    [][/\ mode'.back >= 1
       /\ mode'.progress \in 0..(cfg.THRESHOLD_FALLBACK_SESSIONS - 1)
       /\ (op' = "submit_session" /\ ~mode.manual) =>
            /\ SubmittedPercent >= cfg.THRESHOLD_ADVANCE
                    => mode'.back = mode.back + 1 /\ mode'.progress = 0
            /\ mode'.back < mode.back
                    <=> /\ SubmittedPercent < cfg.THRESHOLD_FALLBACK
                        /\ mode.back > 1
                        /\ cfg.JAEGGI_MODE
                             \/ mode.progress = cfg.THRESHOLD_FALLBACK_SESSIONS - 1
            /\ mode'.back < mode.back => mode'.back = mode.back - 1]_vars

\* the third below-fallback session at level 2 has taken the level to 1
C40_Witness ==
    /\ op = "submit_session"
    /\ ~cfg.JAEGGI_MODE
    /\ ~mode.manual
    /\ Len(history) = 3
    /\ \A i \in 1..3 : history[i].n_back = 2 /\ history[i].percent = 30
    /\ mode.back = 1
    /\ mode.progress = 0

====
